---- MODULE Spec2Model ----
(***************************************************************************)
(* Model of the discovery crawlers (scripts/discovery_agent.py,            *)
(* scripts/spider_agent.py) and of the download loops                      *)
(* (scripts/download_orchestrator.py, scripts/download_all_epstein.py,     *)
(* scripts/download_all.py, scripts/download_pdfs_with_verification.py).   *)
(*                                                                         *)
(* Python strings are sequences of one-character strings, so that          *)
(* startswith / endswith / lower / in are computed as the code computes    *)
(* them.                                                                   *)
(***************************************************************************)
EXTENDS Integers, Sequences, FiniteSets, TLC

VARIABLES
    tool,              \* which crawler the session runs: "discovery" or "spider"
    max_depth,         \* self.max_depth
    visited,           \* self.visited
    discovered_links,  \* DiscoveryTool.discovered_links
    discovered_pdfs,   \* self.discovered_pdfs
    crawl_log,         \* SpiderTool.crawl_log
    fetch_log,         \* history: the (url, depth) of every fetch_page invocation
    site,              \* the web: any = TRUE when a fetch may return anything,
                       \* else pages gives what each URL serves
    last               \* history: arguments and outcome of the latest crawl call

crawl_vars ==
    <<tool, max_depth, visited, discovered_links, discovered_pdfs, crawl_log, fetch_log,
      site, last>>

(***************************************************************************)
(* Bounds of the model                                                     *)
(***************************************************************************)
\* largest max_depth a session is constructed with
MaxDepthBound == 1
\* largest number of anchors on one fetched page
MaxLinks == 2
\* cap on the number of fetch_page invocations of one session
MaxFetches == 3
\* largest number of anchors on a page whose links are classified
MaxPageLinks == 3
\* largest number of entries of a download list
MaxList == 2
\* number of successive download runs over one list
MaxRuns == 2

(***************************************************************************)
(* String literals of the source                                           *)
(***************************************************************************)
S_hash == <<"#">>
S_javascript == <<"j","a","v","a","s","c","r","i","p","t",":">>
S_slash == <<"/">>
S_http == <<"h","t","t","p">>
S_pdf == <<".","p","d","f">>
S_justice == <<"j","u","s","t","i","c","e",".","g","o","v">>
S_bmverify == <<"b","m","-","v","e","r","i","f","y">>
S_akamai == <<"a","k","a","m","a","i">>
S_epstein_doc == <<"e","p","s","t","e","i","n","_","d","o","c","_">>
S_DataSet20 == <<"D","a","t","a","S","e","t","%","2","0">>
S_DataSetSp == <<"D","a","t","a","S","e","t"," ">>
S_unknown == <<"u","n","k","n","o","w","n">>
S_dataset == <<"d","a","t","a","s","e","t","_">>
S_pct20 == <<"%","2","0">>
S_underscore == <<"_">>
S_PDF == <<"%","P","D","F">>

(***************************************************************************)
(* str methods                                                             *)
(***************************************************************************)
StartsWith(s, p) == Len(s) >= Len(p) /\ SubSeq(s, 1, Len(p)) = p

EndsWith(s, p) == Len(s) >= Len(p) /\ SubSeq(s, Len(s) - Len(p) + 1, Len(s)) = p

\* needle in s
Contains(s, needle) ==
    \E i \in 1..(Len(s) - Len(needle) + 1) : SubSeq(s, i, i + Len(needle) - 1) = needle

UpperToLower ==
    [c \in {"A","D","F","I","K","M","P","X","B"} |->
        CASE c = "A" -> "a" [] c = "D" -> "d" [] c = "F" -> "f" [] c = "I" -> "i"
          [] c = "K" -> "k" [] c = "M" -> "m" [] c = "P" -> "p" [] c = "X" -> "x"
          [] c = "B" -> "b"]

Lower(s) == [i \in 1..Len(s) |-> IF s[i] \in DOMAIN UpperToLower THEN UpperToLower[s[i]] ELSE s[i]]

\* s[:n]
Take(s, n) == SubSeq(s, 1, IF Len(s) < n THEN Len(s) ELSE n)

\* index of the first character of s, at or after position from, that is in
\* chars; Len(s) + 1 when there is none
RECURSIVE FindFirst(_, _, _)
FindFirst(s, chars, from) ==
    IF from > Len(s) THEN Len(s) + 1
    ELSE IF s[from] \in chars THEN from
    ELSE FindFirst(s, chars, from + 1)

\* index of the last "/" of s, 0 when there is none
RECURSIVE LastSlash(_, _)
LastSlash(s, i) ==
    IF i = 0 THEN 0 ELSE IF s[i] = "/" THEN i ELSE LastSlash(s, i - 1)

(***************************************************************************)
(* urllib.parse                                                            *)
(***************************************************************************)
SchemeChars ==
    {"a","b","c","d","e","f","g","h","i","j","k","l","m","n","o","p","q","r","s","t",
     "u","v","w","x","y","z","0","1","2","3","4","5","6","7","8","9","+","-","."}

\* urlparse(url): scheme, netloc and path of url
urlparse(url) ==
    LET Parts(scheme, rest, hasNetloc, netEnd) ==
            [scheme |-> scheme,
             netloc |-> IF hasNetloc THEN SubSeq(rest, 3, netEnd - 1) ELSE <<>>,
             path |-> SubSeq(rest, netEnd, FindFirst(rest, {"?","#"}, netEnd) - 1)]
        Netloc(scheme, rest, hasNetloc) ==
            Parts(scheme, rest, hasNetloc,
                  IF hasNetloc THEN FindFirst(rest, {"/","?","#"}, 3) ELSE 1)
        Rest(scheme, rest) == Netloc(scheme, rest, StartsWith(rest, <<"/","/">>))
        Scheme(colon, hasScheme) ==
            IF hasScheme
            THEN Rest(Lower(SubSeq(url, 1, colon - 1)), SubSeq(url, colon + 1, Len(url)))
            ELSE Rest(<<>>, url)
        Colon(colon) ==
            Scheme(colon, /\ colon <= Len(url)
                          /\ colon > 1
                          /\ \A i \in 1..(colon - 1) : Lower(<<url[i]>>)[1] \in SchemeChars)
    IN  Colon(FindFirst(url, {":"}, 1))

\* urljoin(base, url) for a url that is a relative path or carries its own
\* scheme, or is a fragment only (no dot segments, no query-only references;
\* base has no query and no fragment)
urljoin(base, url) ==
    LET Dir(path) ==
            IF path = <<>> THEN S_slash ELSE SubSeq(path, 1, LastSlash(path, Len(path)))
        Join(b, u) ==
            IF url = <<>> THEN base
            ELSE IF Head(url) = "#" THEN base \o url
            ELSE IF u.scheme # <<>> /\ u.scheme # b.scheme THEN url
            ELSE b.scheme \o <<":","/","/">> \o b.netloc \o Dir(b.path) \o url
    IN  Join(urlparse(base), urlparse(url))


\* s.strip(), for the whitespace characters of the model (space, newline)
RECURSIVE LStrip(_)
LStrip(s) == IF s # <<>> /\ Head(s) \in {" ", "\n"} THEN LStrip(Tail(s)) ELSE s

RECURSIVE RStrip(_)
RStrip(s) ==
    IF s # <<>> /\ s[Len(s)] \in {" ", "\n"} THEN RStrip(SubSeq(s, 1, Len(s) - 1)) ELSE s

Strip(s) == RStrip(LStrip(s))

(***************************************************************************)
(* The web the crawlers see.  A fetched page is its non-anchor text and    *)
(* its anchors in document order; the empty page is the empty string.      *)
(***************************************************************************)
U_e == <<"h","t","t","p","s",":","/","/","w","w","w",".","j","u","s","t","i","c","e",".","g","o","v","/","e">>
U_b == <<"h","t","t","p","s",":","/","/","w","w","w",".","j","u","s","t","i","c","e",".","g","o","v","/","b">>
H_xpdf == <<"/","x",".","p","d","f">>
H_abs_xpdf == <<"h","t","t","p","s",":","/","/","w","w","w",".","j","u","s","t","i","c","e",".","g","o","v","/","x",".","p","d","f">>
H_b == <<"/","b">>
H_ext == <<"h","t","t","p","s",":","/","/","o","t","h","e","r",".","c","o","m","/","c">>

H_xPDF == <<"/","x",".","P","D","F">>
H_ext_pdf == <<"h","t","t","p","s",":","/","/","o","t","h","e","r",".","c","o","m","/","c",".","p","d","f">>
H_query_pdf == <<"/","x",".","p","d","f","?","v">>
H_lookalike == <<"h","t","t","p","s",":","/","/","x","j","u","s","t","i","c","e",".","g","o","v","/","c">>
H_abs_b == <<"h","t","t","p","s",":","/","/","w","w","w",".","j","u","s","t","i","c","e",".","g","o","v","/","b">>
H_frag == <<"#","t">>
H_js == <<"j","a","v","a","s","c","r","i","p","t",":","v">>
H_empty == <<>>
H_http_pdf == <<"h","t","t","p",".","p","d","f">>
H_rel == <<"d","/","y">>

\* URLs a driver passes to a crawl call
CrawlUrls == {U_e, U_b}

\* anchors a page may hold
Anchors ==
    { [href |-> H_xpdf, text |-> <<"X">>],
      [href |-> H_abs_xpdf, text |-> <<"P">>],
      [href |-> H_b, text |-> <<"B">>],
      [href |-> H_ext, text |-> <<>>] }

\* non-anchor text of a page: plain, or carrying a challenge marker
PageTexts == { <<"p">>, S_bmverify, <<"A","k","a","m","a","i">> }

AnchorSeqs == UNION { [1..n -> Anchors] : n \in 0..MaxLinks }

\* anchors of the pages on which the classification of a link is examined:
\* documents in upper case, on another host and with a query; navigation
\* links on the target host, on a host that only ends like it, and elsewhere
ClassifyAnchors ==
    { [href |-> H_xPDF, text |-> <<"X">>],
      [href |-> H_ext_pdf, text |-> <<"P">>],
      [href |-> H_query_pdf, text |-> <<>>],
      [href |-> H_lookalike, text |-> <<"K">>],
      [href |-> H_ext, text |-> <<>>],
      [href |-> H_b, text |-> <<"B">>] }

\* anchors of the pages on which the filter and the resolution of hrefs are
\* examined
FilterAnchors ==
    { [href |-> H_frag, text |-> <<"F">>],
      [href |-> H_js, text |-> <<"I">>],
      [href |-> H_empty, text |-> <<"M">>],
      [href |-> H_http_pdf, text |-> <<"D">>],
      [href |-> H_rel, text |-> <<>>],
      [href |-> H_b, text |-> <<"B">>] }

\* anchors of the pages on which repeated sightings of one navigation link
\* are examined: one absolute href under two texts, and its relative form
DedupAnchors ==
    { [href |-> H_abs_b, text |-> <<"B">>],
      [href |-> H_abs_b, text |-> <<"D">>],
      [href |-> H_b, text |-> <<"X">>] }

H_e == <<"/","e">>

\* anchors of the pages of the sessions a top-level driver runs
SessionAnchors ==
    { [href |-> H_b, text |-> <<"B">>],
      [href |-> H_e, text |-> <<"E">>],
      [href |-> H_xPDF, text |-> <<"X">>] }

AllAnchors ==
    Anchors \cup ClassifyAnchors \cup FilterAnchors \cup DedupAnchors \cup SessionAnchors

\* fetch_page's None (curl failed or could not be run)
None == [none |-> TRUE, text |-> <<>>, anchors |-> <<>>]

\* the empty string
EmptyHtml == [none |-> FALSE, text |-> <<>>, anchors |-> <<>>]

Htmls == { [none |-> FALSE, text |-> t, anchors |-> a] : t \in PageTexts, a \in AnchorSeqs }

\* what fetch_page may return: None, the empty string, or markup
FetchResults == {None, EmptyHtml} \cup Htmls

\* not html
Falsy(html) == html = None \/ html = EmptyHtml

\* 'bm-verify' in s or 'akamai' in s.lower(), for a piece s of the markup
HasMarker(s) == Contains(s, S_bmverify) \/ Contains(Lower(s), S_akamai)

\* the pieces a page of the model is made of
Pieces ==
    PageTexts \cup {<<>>} \cup {a.href : a \in AllAnchors} \cup {a.text : a \in AllAnchors}

\* HasMarker of every piece, evaluated once
MarkerTable == [s \in Pieces |-> HasMarker(s)]

\* mutant of IsChallenge: the markers are sought in the text as it is
IsChallenge_CaseSensitive(html) ==
    Contains(html.text, S_bmverify) \/ Contains(html.text, S_akamai)

\* 'bm-verify' in html or 'akamai' in html.lower(): a marker is in the text of
\* the page or in one of its anchors
IsChallenge(html) ==
    \/ MarkerTable[html.text]
    \/ \E i \in DOMAIN html.anchors :
          MarkerTable[html.anchors[i].href] \/ MarkerTable[html.anchors[i].text]

\* stdout of htmlq -a href a: the href of every anchor, in document order
Hrefs(html) == [i \in DOMAIN html.anchors |-> html.anchors[i].href]

\* stdout of htmlq -t a[href="url"], stripped: the texts of the anchors whose
\* href attribute is literally url, one per line
RECURSIVE JoinTexts(_, _)
JoinTexts(anchors, url) ==
    IF anchors = <<>> THEN <<>>
    ELSE IF Head(anchors).href = url
         THEN Head(anchors).text \o <<"\n">> \o JoinTexts(Tail(anchors), url)
         ELSE JoinTexts(Tail(anchors), url)

TextLimit == 100

LinkText(html, url) == Take(Strip(JoinTexts(html.anchors, url)), TextLimit)

\* the absolute URL of an href found on page base_url
MakeAbsolute(url, base_url) ==
    IF StartsWith(url, S_slash)
    THEN LET Origin(parsed) == parsed.scheme \o <<":","/","/">> \o parsed.netloc \o url
         IN  Origin(urlparse(base_url))
    ELSE IF ~StartsWith(url, S_http) THEN urljoin(base_url, url)
    ELSE url

\* mutant of KeepHref: script pseudo-URLs pass
KeepHref_Javascript(url) == url # <<>> /\ ~StartsWith(url, S_hash)

\* url and not url.startswith('#') and not url.startswith('javascript:')
KeepHref(url) == url # <<>> /\ ~StartsWith(url, S_hash) /\ ~StartsWith(url, S_javascript)

\* url.lower().endswith('.pdf')
is_pdf(url) == EndsWith(Lower(url), S_pdf)

\* netloc.endswith('justice.gov')
justice_gov(netloc) == EndsWith(netloc, S_justice)

\* what the extraction loops compute from one href of page base_url: whether
\* it is kept, its absolute URL, and the tests on that URL
LinkData(href, base_url) ==
    LET Fields(keep, url, netloc) ==
            [keep |-> keep, url |-> url, is_pdf |-> is_pdf(url), domain |-> netloc,
             justice_gov |-> justice_gov(netloc)]
        OfUrl(keep, url) == Fields(keep, url, urlparse(url).netloc)
        OfRaw(raw) == OfUrl(KeepHref(raw), MakeAbsolute(raw, base_url))
    IN  OfRaw(Strip(href))

\* LinkData of every href on every page URL, evaluated once
LinkTable ==
    [href \in {a.href : a \in AllAnchors}, base_url \in CrawlUrls |-> LinkData(href, base_url)]


(***************************************************************************)
(* DiscoveryTool: link extraction                                          *)
(***************************************************************************)
\* the loop body of both extractors: one link dict per kept href
RECURSIVE DiscoveryLinks(_, _, _, _)
DiscoveryLinks(urls, html, base_url, with_text) ==
    IF urls = <<>> THEN <<>>
    ELSE LET Links(link) ==
                 IF link.keep
                 THEN << [url |-> link.url,
                          text |-> IF with_text THEN LinkText(html, link.url) ELSE <<>>,
                          is_pdf |-> link.is_pdf,
                          domain |-> link.domain] >>
                 ELSE <<>>
         IN  Links(LinkTable[Head(urls), base_url])
                \o DiscoveryLinks(Tail(urls), html, base_url, with_text)

\* htmlq_ok: the htmlq subprocess ran and returned 0
extract_links_with_htmlq(html, base_url, htmlq_ok) ==
    IF htmlq_ok THEN DiscoveryLinks(Hrefs(html), html, base_url, TRUE) ELSE <<>>

extract_links_with_grep(html, base_url) == DiscoveryLinks(Hrefs(html), html, base_url, FALSE)

\* _extract_context: the markup around the first href attribute that is
\* literally url, tags removed; here the text of that anchor
_extract_context(html, url) ==
    LET hits == SelectSeq(html.anchors, LAMBDA a : a.href = url)
    IN  IF hits = <<>> THEN <<>> ELSE Head(hits).text

(***************************************************************************)
(* SpiderTool: link extraction                                             *)
(***************************************************************************)
\* the orders in which list(set(hrefs)) may iterate
Orders(hrefs) ==
    LET S == {hrefs[i] : i \in DOMAIN hrefs}
    IN  {p \in [1..Cardinality(S) -> S] : \A i, j \in DOMAIN p : i # j => p[i] # p[j]}

\* hrefs with every repetition after the first removed (the seen set)
RECURSIVE Unique(_, _)
Unique(urls, seen) ==
    IF urls = <<>> THEN <<>>
    ELSE LET First(raw) == IF raw = <<>> \/ raw \in seen THEN <<>> ELSE <<raw>>
         IN  First(Strip(Head(urls)))
                \o Unique(Tail(urls), seen \cup {Strip(Head(urls))})

\* the loop of both extractors: the link_data of every kept href on a
\* justice.gov host that goes to pdfs (pdf = TRUE) or to nav_links
RECURSIVE SpiderLinks(_, _, _, _, _)
SpiderLinks(urls, html, base_url, with_text, pdf) ==
    IF urls = <<>> THEN <<>>
    ELSE LET Links(link) ==
                 IF link.keep /\ link.justice_gov /\ link.is_pdf = pdf
                 THEN << [url |-> link.url,
                          text |-> IF with_text THEN LinkText(html, link.url) ELSE <<>>,
                          domain |-> link.domain] >>
                 ELSE <<>>
         IN  Links(LinkTable[Head(urls), base_url])
                \o SpiderLinks(Tail(urls), html, base_url, with_text, pdf)

extract_links_regex(html, base_url) ==
    LET Found(urls) ==
            [pdfs |-> SpiderLinks(urls, html, base_url, FALSE, TRUE),
             nav_links |-> SpiderLinks(urls, html, base_url, FALSE, FALSE)]
    IN  Found(Unique(Hrefs(html), {}))

\* order: the iteration order of list(set(...)) in this call
extract_links_htmlq(html, base_url, htmlq_ok, order) ==
    IF htmlq_ok
    THEN [pdfs |-> SpiderLinks(order, html, base_url, TRUE, TRUE),
          nav_links |-> SpiderLinks(order, html, base_url, TRUE, FALSE)]
    ELSE extract_links_regex(html, base_url)

(***************************************************************************)
(* The crawl calls                                                         *)
(***************************************************************************)
\* mutants of ShouldSkip: the visited test lost, the depth test off by one
\* upwards, the depth test exclusive
ShouldSkip_IgnoreVisited(url, depth) == depth > max_depth

ShouldSkip_DepthPlusOne(url, depth) == depth > max_depth + 1 \/ url \in visited

ShouldSkip_Exclusive(url, depth) == depth >= max_depth \/ url \in visited

\* depth > self.max_depth or url in self.visited
ShouldSkip(url, depth) == depth > max_depth \/ url \in visited

\* mutant of MarkVisited: the url is not added
MarkVisited_Forgotten(url) == visited

\* mutant of MarkVisited: every URL of the web is marked at once
MarkVisited_Everything(url) == CrawlUrls

\* self.visited.add(url)
MarkVisited(url) == visited \cup {url}

\* mutant of StorePdfsDiscovery: every document is stored with the depth of
\* the seed page
RECURSIVE StorePdfsDiscovery_SeedDepth(_, _, _, _)
StorePdfsDiscovery_SeedDepth(stored, pdfs, url, depth) ==
    IF pdfs = <<>> THEN stored
    ELSE StorePdfsDiscovery_SeedDepth(
            Append(stored, [url |-> Head(pdfs).url, text |-> Head(pdfs).text,
                            is_pdf |-> Head(pdfs).is_pdf, domain |-> Head(pdfs).domain,
                            source_page |-> url, depth |-> 0]),
            Tail(pdfs), url, depth)

\* DiscoveryTool: "Store PDFs"
RECURSIVE StorePdfsDiscovery(_, _, _, _)
StorePdfsDiscovery(stored, pdfs, url, depth) ==
    IF pdfs = <<>> THEN stored
    ELSE StorePdfsDiscovery(
            Append(stored, [url |-> Head(pdfs).url, text |-> Head(pdfs).text,
                            is_pdf |-> Head(pdfs).is_pdf, domain |-> Head(pdfs).domain,
                            source_page |-> url, depth |-> depth]),
            Tail(pdfs), url, depth)

\* mutant of StoreNavLinks: every navigation link is appended
RECURSIVE StoreNavLinks_Append(_, _, _, _, _)
StoreNavLinks_Append(stored, nav_links, html, url, depth) ==
    IF nav_links = <<>> THEN stored
    ELSE StoreNavLinks_Append(
            Append(stored, [url |-> Head(nav_links).url, text |-> Head(nav_links).text,
                            context |-> _extract_context(html, Head(nav_links).url),
                            depth |-> depth, source_page |-> url]),
            Tail(nav_links), html, url, depth)

\* DiscoveryTool: "Store navigation links for model review"
RECURSIVE StoreNavLinks(_, _, _, _, _)
StoreNavLinks(stored, nav_links, html, url, depth) ==
    IF nav_links = <<>> THEN stored
    ELSE LET link == Head(nav_links)
             known == {stored[i].url : i \in DOMAIN stored}
         IN  StoreNavLinks(
                IF link.url \notin known
                THEN Append(stored, [url |-> link.url, text |-> link.text,
                                     context |-> _extract_context(html, link.url),
                                     depth |-> depth, source_page |-> url])
                ELSE stored,
                Tail(nav_links), html, url, depth)

\* SpiderTool: "Store PDFs"
RECURSIVE StorePdfsSpider(_, _, _, _)
StorePdfsSpider(stored, pdfs, url, depth) ==
    IF pdfs = <<>> THEN stored
    ELSE LET pdf == Head(pdfs)
             known == {stored[i].url : i \in DOMAIN stored}
         IN  StorePdfsSpider(
                IF pdf.url \notin known
                THEN Append(stored, [url |-> pdf.url, text |-> pdf.text, domain |-> pdf.domain,
                                     source_page |-> url, depth |-> depth])
                ELSE stored,
                Tail(pdfs), url, depth)

\* a web of which nothing is known
AnySite == [any |-> TRUE, pages |-> <<>>]

\* a web that serves pages[url] for url, every time
KnownSite(pages) == [any |-> FALSE, pages |-> pages]

\* what self.fetch_page(url) may return; curl fails on a URL the web does not
\* serve
fetch_page(url) ==
    IF site.any THEN FetchResults
    ELSE IF url \in DOMAIN site.pages THEN {site.pages[url]}
    ELSE {None}

\* what fetch_page returned in a call: "None", "empty" (the empty string),
\* "markup", or "not_called"
FetchKind(html) == IF html = None THEN "None" ELSE IF html = EmptyHtml THEN "empty" ELSE "markup"

\* pdf_count, nav_link_count and external_link_count of the returned dict
Counts(pdf_count, nav_link_count, external_link_count) ==
    [pdf_count |-> pdf_count, nav_link_count |-> nav_link_count,
     external_link_count |-> external_link_count]

\* a return value that carries no counts
NoCounts == Counts(0, 0, 0)

\* arguments and outcome of a crawl call; fetch: the kind of what fetch_page
\* returned; counts: the link counts the call returned
Outcome(url, depth, status, fetch, counts) ==
    [url |-> url, depth |-> depth, status |-> status, fetch |-> fetch, counts |-> counts]

\* DiscoveryTool.discover_from_page(url, depth)
discover_from_page(url, depth) ==
    /\ tool = "discovery"
    /\ IF ShouldSkip(url, depth)
       THEN /\ last' = Outcome(url, depth, "skipped", "not_called", NoCounts)
            /\ UNCHANGED <<visited, discovered_links, discovered_pdfs, fetch_log>>
       ELSE /\ Len(fetch_log) < MaxFetches
            /\ visited' = MarkVisited(url)
            /\ fetch_log' = Append(fetch_log, [url |-> url, depth |-> depth])
            /\ \E html \in fetch_page(url) :
                  IF Falsy(html)
                  THEN /\ last' = Outcome(url, depth, "error", FetchKind(html), NoCounts)
                       /\ UNCHANGED <<discovered_links, discovered_pdfs>>
                  ELSE IF IsChallenge(html)
                  THEN /\ last' = Outcome(url, depth, "blocked", FetchKind(html), NoCounts)
                       /\ UNCHANGED <<discovered_links, discovered_pdfs>>
                  ELSE \E htmlq_ok \in BOOLEAN :
                       LET Store(pdfs, nav_links, external_links) ==
                               /\ discovered_pdfs' =
                                      StorePdfsDiscovery(discovered_pdfs, pdfs, url, depth)
                               /\ discovered_links' =
                                      StoreNavLinks(discovered_links, nav_links, html, url, depth)
                               /\ last' = Outcome(url, depth, "success", FetchKind(html),
                                      Counts(Len(pdfs), Len(nav_links), Len(external_links)))
                           Separate(links) ==
                               Store(SelectSeq(links, LAMBDA l : l.is_pdf),
                                     SelectSeq(links,
                                         LAMBDA l : ~l.is_pdf /\ justice_gov(l.domain)),
                                     SelectSeq(links,
                                         LAMBDA l : ~l.is_pdf /\ ~justice_gov(l.domain)))
                           OrGrep(links) ==
                               Separate(IF links = <<>> THEN extract_links_with_grep(html, url)
                                        ELSE links)
                       IN  OrGrep(extract_links_with_htmlq(html, url, htmlq_ok))
    /\ UNCHANGED <<tool, max_depth, crawl_log, site>>

\* SpiderTool.crawl_page(url, depth); it returns None or a PageData
crawl_page(url, depth) ==
    /\ tool = "spider"
    /\ IF ShouldSkip(url, depth)
       THEN /\ last' = Outcome(url, depth, "None", "not_called", NoCounts)
            /\ UNCHANGED <<visited, discovered_pdfs, crawl_log, fetch_log>>
       ELSE /\ Len(fetch_log) < MaxFetches
            /\ visited' = MarkVisited(url)
            /\ fetch_log' = Append(fetch_log, [url |-> url, depth |-> depth])
            /\ \E html \in fetch_page(url) :
                  IF Falsy(html) \/ IsChallenge(html)
                  THEN /\ last' = Outcome(url, depth, "None", FetchKind(html), NoCounts)
                       /\ UNCHANGED <<discovered_pdfs, crawl_log>>
                  ELSE \E htmlq_ok \in BOOLEAN, order \in Orders(Hrefs(html)) :
                       LET Store(found) ==
                               /\ discovered_pdfs' =
                                      StorePdfsSpider(discovered_pdfs, found.pdfs, url, depth)
                               /\ crawl_log' = Append(crawl_log,
                                      [url |-> url, depth |-> depth,
                                       pdf_links |-> found.pdfs, nav_links |-> found.nav_links])
                       IN  /\ Store(extract_links_htmlq(html, url, htmlq_ok, order))
                           /\ last' = Outcome(url, depth, "PageData", FetchKind(html), NoCounts)
    /\ UNCHANGED <<tool, max_depth, discovered_links, site>>


(***************************************************************************)
(* The download loops                                                      *)
(***************************************************************************)
VARIABLES
    script,      \* which loop runs: "orchestrator" (DownloadOrchestrator.download_pdfs),
                 \* "all_epstein" (download_all_pdfs), "all" (download_all),
                 \* "with_verification" (download_with_age_verification)
    pdf_list,    \* the input list, as the url of each entry
    disk,        \* the files of the output directory: path -> [size, head]
    idx,         \* i of the for loop: the entry the next iteration handles
    downloaded,  \* the downloaded list (the downloaded counter of download_all)
    failed,      \* the failed list (the failed counter of download_all)
    total_size,  \* total_size of download_all
    run,         \* number of the current run over pdf_list
    trace,       \* history: one Step per iteration of this run
    prev_ok      \* history: the entries (indices of pdf_list) the previous run
                 \* recorded as downloaded or as already existing

dl_vars ==
    <<script, pdf_list, disk, idx, downloaded, failed, total_size, run, trace, prev_ok>>

D_a == <<"h","t","t","p","s",":","/","/","j","u","s","t","i","c","e",".","g","o","v","/","f","/","a",".","p","d","f">>
D_a2 == <<"h","t","t","p","s",":","/","/","j","u","s","t","i","c","e",".","g","o","v","/","g","/","a",".","p","d","f">>
D_b == <<"h","t","t","p","s",":","/","/","j","u","s","t","i","c","e",".","g","o","v","/","f","/","b">>

\* URLs a download list may hold
DownloadUrls == {D_a, D_a2, D_b}

Scripts == {"orchestrator", "all_epstein", "all", "with_verification"}

\* os.path.getsize(output_path) > 1000
MinSize == 1000

\* os.path.basename(path) and url.split("/")[-1]
LastSegment(s) == SubSeq(s, LastSlash(s, Len(s)) + 1, Len(s))

\* s.replace(old, new)
RECURSIVE Replace(_, _, _)
Replace(s, old, new) ==
    IF s = <<>> THEN <<>>
    ELSE IF StartsWith(s, old) THEN new \o Replace(SubSeq(s, Len(old) + 1, Len(s)), old, new)
    ELSE <<Head(s)>> \o Replace(Tail(s), old, new)

\* str(i) for a one-digit i
Str(i) == <<ToString(i)>>

\* DownloadOrchestrator.download_pdfs: filename of entry i
OrchestratorFilename(url, i) ==
    LET filename == LastSegment(urlparse(url).path)
    IN  IF filename = <<>> \/ ~EndsWith(filename, S_pdf)
        THEN S_epstein_doc \o Str(i) \o S_pdf
        ELSE filename

\* download_all_pdfs: the dataset prefix of a url
Dataset(url) ==
    LET hit(d) == Contains(url, S_DataSet20 \o Str(d)) \/ Contains(url, S_DataSetSp \o Str(d))
        ds == {d \in 1..9 : hit(d)}
    IN  IF (Contains(url, S_DataSet20) \/ Contains(url, S_DataSetSp)) /\ ds # {}
        THEN S_dataset \o Str(CHOOSE d \in ds : \A e \in ds : d <= e)
        ELSE S_unknown

\* download_all_pdfs: output_filename
AllEpsteinFilename(url) == Dataset(url) \o S_underscore \o LastSegment(urlparse(url).path)

\* download_all and download_with_age_verification: filename
SplitFilename(url) == Replace(LastSegment(url), S_pct20, S_underscore)

\* the output path of entry i (the directory is fixed per script)
OutputPath(url, i) ==
    CASE script = "orchestrator" -> OrchestratorFilename(url, i)
      [] script = "all_epstein" -> AllEpsteinFilename(url)
      [] OTHER -> SplitFilename(url)

\* os.path.exists(output_path)
Exists(path) == path \in DOMAIN disk

\* os.path.exists(output_path) and os.path.getsize(output_path) > 1000
ExistsAboveMinSize(path) == Exists(path) /\ disk[path].size > MinSize

\* the "Skip if already exists" test of each loop
SkipExisting(path) ==
    IF script = "orchestrator" THEN Exists(path) ELSE ExistsAboveMinSize(path)

\* binary_data[:4] == b"%PDF"
IsPdfPayload(payload) == payload.head = S_PDF

\* the check a loop makes on the payload before writing it
Verified(payload) == IF script = "orchestrator" THEN TRUE ELSE IsPdfPayload(payload)

\* with open(output_path, "wb") as f: f.write(binary_data)
WriteFile(path, payload) ==
    [p \in DOMAIN disk \cup {path} |-> IF p = path THEN payload ELSE disk[p]]

\* payloads a download may return: size and first four bytes
Payloads ==
    { [size |-> MinSize, head |-> S_PDF],
      [size |-> MinSize + 1, head |-> S_PDF],
      [size |-> MinSize + 1, head |-> <<"<","h","t","m">>] }

\* what page.evaluate gives: a dict with an error, no data URL, an exception,
\* or the data URL of a payload
Responses ==
    { [kind |-> "error", error |-> "HTTP 404"],
      [kind |-> "invalid", error |-> "Invalid"],
      [kind |-> "raise", error |-> "Timeout"] }
    \cup { [kind |-> "data", payload |-> p] : p \in Payloads }

\* str(e) of the exception an iteration ends with, "" when it ends with none
ErrorOf(response) ==
    CASE response.kind \in {"error", "raise"} -> response.error
      [] response.kind = "invalid" ->
            IF script = "with_verification" THEN "Invalid response" ELSE "Invalid response format"
      [] ~Verified(response.payload) ->
            IF script = "with_verification" THEN "Not a valid PDF" ELSE "Not a valid PDF file"
      [] OTHER -> ""

\* size of the file at path, -1 when there is none
SizeAt(path) == IF Exists(path) THEN disk[path].size ELSE -1

\* history record of one iteration: the url, how it ended ("already_exists",
\* "downloaded", "failed"), whether the url was requested from the network,
\* the payload received ("pdf", "not_pdf", "none"), whether the iteration
\* wrote the file at the output path, and the size of the file at the output
\* path before the iteration, and the number of bytes the iteration wrote
Step(url, outcome, fetched, written, response, path) ==
    [url |-> url, outcome |-> outcome, fetched |-> fetched, written |-> written,
     payload |-> IF ~fetched \/ response.kind # "data" THEN "none"
                 ELSE IF IsPdfPayload(response.payload) THEN "pdf" ELSE "not_pdf",
     existing |-> SizeAt(path),
     size |-> IF written THEN response.payload.size ELSE 0]

NoResponse == [kind |-> "none"]

\* except Exception as e: failed.append({...})
RecordFailure(url, filename, error) ==
    Append(failed, [url |-> url, filename |-> filename, error |-> error])

\* mutant of NextIndex: an error ends the loop
NextIndex_Abort(i, error) == IF error = "" THEN i + 1 ELSE Len(pdf_list) + 1

\* the loop goes on to the next entry, whatever error the iteration met: every
\* exception of an iteration is caught inside it
NextIndex(i, error) == i + 1

\* one iteration of the loop of download_pdfs / download_all_pdfs
ListIteration(url, filename, path) ==
    IF SkipExisting(path)
    THEN /\ downloaded' = Append(downloaded,
                [url |-> url, filename |-> filename, status |-> "already_exists", path |-> path])
         /\ trace' = Append(trace, Step(url, "already_exists", FALSE, FALSE, NoResponse, path))
         /\ idx' = idx + 1
         /\ UNCHANGED <<failed, disk>>
    ELSE \E response \in Responses :
            IF ErrorOf(response) = ""
            THEN /\ disk' = WriteFile(path, response.payload)
                 /\ downloaded' = Append(downloaded,
                        [url |-> url, filename |-> filename, status |-> "downloaded",
                         size |-> response.payload.size, path |-> path])
                 /\ trace' = Append(trace, Step(url, "downloaded", TRUE, TRUE, response, path))
                 /\ idx' = idx + 1
                 /\ UNCHANGED failed
            ELSE /\ failed' = RecordFailure(url, filename, ErrorOf(response))
                 /\ trace' = Append(trace, Step(url, "failed", TRUE, FALSE, response, path))
                 /\ idx' = NextIndex(idx, ErrorOf(response))
                 /\ UNCHANGED <<downloaded, disk>>

\* DownloadOrchestrator.download_pdfs: one iteration of the for loop
download_pdfs ==
    /\ script = "orchestrator"
    /\ idx <= Len(pdf_list)
    /\ LET url == pdf_list[idx]
           filename == OrchestratorFilename(url, idx)
       IN  ListIteration(url, filename, OutputPath(url, idx))
    /\ UNCHANGED <<script, pdf_list, total_size, run, prev_ok>>

\* download_all_pdfs: one iteration of the for loop
download_all_pdfs ==
    /\ script = "all_epstein"
    /\ idx <= Len(pdf_list)
    /\ LET url == pdf_list[idx]
           filename == AllEpsteinFilename(url)
       IN  ListIteration(url, filename, OutputPath(url, idx))
    /\ UNCHANGED <<script, pdf_list, total_size, run, prev_ok>>

\* download_with_age_verification: one iteration of the for loop.
\* session_ok: the goto of the disclosures page returned; nav: the goto of
\* the PDF URL returned, raised "Download is starting", or raised otherwise.
\* The age-verification click never changes the outcome (its errors are
\* swallowed).
download_with_age_verification ==
    /\ script = "with_verification"
    /\ idx <= Len(pdf_list)
    /\ LET url == pdf_list[idx]
           filename == SplitFilename(url)
           path == OutputPath(url, idx)
       IN  IF SkipExisting(path)
           THEN /\ downloaded' = Append(downloaded,
                       [url |-> url, filename |-> filename, status |-> "exists"])
                /\ trace' = Append(trace, Step(url, "already_exists", FALSE, FALSE, NoResponse, path))
                /\ idx' = idx + 1
                /\ UNCHANGED <<failed, disk>>
           ELSE \E session_ok \in BOOLEAN, nav \in {"ok", "download_starting", "raise"},
                   response \in Responses :
                   LET error == IF ~session_ok THEN "Timeout 30000ms exceeded"
                                ELSE IF nav = "raise" THEN "net::ERR_ABORTED"
                                ELSE ErrorOf(response)
                   IN  IF error = ""
                       THEN /\ disk' = WriteFile(path, response.payload)
                            /\ downloaded' = Append(downloaded,
                                   [url |-> url, filename |-> filename,
                                    size |-> response.payload.size])
                            /\ trace' = Append(trace, Step(url, "downloaded", TRUE, TRUE, response, path))
                            /\ idx' = idx + 1
                            /\ UNCHANGED failed
                       ELSE /\ failed' = RecordFailure(url, filename, error)
                            /\ trace' = Append(trace,
                                   Step(url, "failed", session_ok, FALSE,
                                        IF nav = "raise" THEN NoResponse ELSE response, path))
                            /\ idx' = NextIndex(idx, error)
                            /\ UNCHANGED <<downloaded, disk>>
    /\ UNCHANGED <<script, pdf_list, total_size, run, prev_ok>>

\* download_all: one iteration of the for loop; downloaded and failed are
\* counters.  An exception of the PDF goto is swallowed.
download_all ==
    /\ script = "all"
    /\ idx <= Len(pdf_list)
    /\ LET url == pdf_list[idx]
           path == OutputPath(url, idx)
       IN  IF SkipExisting(path)
           THEN /\ total_size' = total_size + disk[path].size
                /\ downloaded' = downloaded + 1
                /\ trace' = Append(trace, Step(url, "already_exists", FALSE, FALSE, NoResponse, path))
                /\ idx' = idx + 1
                /\ UNCHANGED <<failed, disk>>
           ELSE \E session_ok \in BOOLEAN, response \in Responses :
                   IF session_ok /\ ErrorOf(response) = ""
                   THEN /\ disk' = WriteFile(path, response.payload)
                        /\ total_size' = total_size + response.payload.size
                        /\ downloaded' = downloaded + 1
                        /\ trace' = Append(trace, Step(url, "downloaded", TRUE, TRUE, response, path))
                        /\ idx' = idx + 1
                        /\ UNCHANGED failed
                   ELSE /\ failed' = failed + 1
                        /\ trace' = Append(trace, Step(url, "failed", session_ok, FALSE, response, path))
                        /\ idx' = NextIndex(idx, IF session_ok THEN ErrorOf(response) ELSE "Timeout")
                        /\ UNCHANGED <<downloaded, disk, total_size>>
    /\ UNCHANGED <<script, pdf_list, run, prev_ok>>

\* the script is run again on the same list; the files stay on disk
run_again ==
    /\ idx > Len(pdf_list)
    /\ run < MaxRuns
    /\ run' = run + 1
    /\ idx' = 1
    /\ downloaded' = IF script = "all" THEN 0 ELSE <<>>
    /\ failed' = IF script = "all" THEN 0 ELSE <<>>
    /\ total_size' = 0
    /\ prev_ok' = {i \in DOMAIN trace : trace[i].outcome \in {"downloaded", "already_exists"}}
    /\ trace' = <<>>
    /\ UNCHANGED <<script, pdf_list, disk>>

\* files an earlier, interrupted or complete, run may have left
PreFiles == { [size |-> 0, head |-> <<>>], [size |-> MinSize + 1, head |-> S_PDF] }

DownloadLists == UNION { [1..n -> DownloadUrls] : n \in 1..MaxList }

DownloadStart(s, list, files) ==
    /\ script = s
    /\ pdf_list = list
    /\ disk = files
    /\ idx = 1
    /\ downloaded = IF s = "all" THEN 0 ELSE <<>>
    /\ failed = IF s = "all" THEN 0 ELSE <<>>
    /\ total_size = 0
    /\ run = 1
    /\ trace = <<>>
    /\ prev_ok = {}

\* the output paths of a list under script s
PathsOf(s, list) ==
    { CASE s = "orchestrator" -> OrchestratorFilename(list[i], i)
        [] s = "all_epstein" -> AllEpsteinFilename(list[i])
        [] OTHER -> SplitFilename(list[i]) : i \in DOMAIN list }

DownloadInit ==
    \E s \in Scripts, list \in DownloadLists :
        \E present \in SUBSET PathsOf(s, list) :
            \E files \in [present -> PreFiles] : DownloadStart(s, list, files)

\* the download stage before any script has been started
DownloadIdle == DownloadStart("orchestrator", <<>>, <<>>)

(***************************************************************************)
(* A download run from its loop to its end: the report it saves, and the   *)
(* interrupts that end it early                                            *)
(***************************************************************************)
VARIABLES
    manifest,  \* the manifest or report file of the script, on disk
    phase      \* where the run is: "loop", "returned", "interrupted"

run_vars == <<manifest, phase>>

\* a file json.dump has written; partial: the write was cut short
JsonFile(content, partial) == [saved |-> TRUE, partial |-> partial, content |-> content]

\* no manifest has been written
NoManifest == [saved |-> FALSE, partial |-> FALSE, content |-> <<>>]

\* the dict save_manifest dumps
save_manifest ==
    [downloaded |-> downloaded, failed |-> failed,
     total_count |-> Len(downloaded) + Len(failed), success_count |-> Len(downloaded)]

\* the dict a script dumps after its loop (success_rate, a rendering of
\* downloaded / total, is left out)
Report ==
    CASE script = "orchestrator" -> save_manifest
      [] script = "all_epstein" ->
            [total |-> Len(pdf_list), downloaded |-> Len(downloaded), failed |-> Len(failed),
             files |-> downloaded, errors |-> failed]
      [] OTHER ->
            [total |-> Len(pdf_list), downloaded |-> Len(downloaded), failed |-> Len(failed)]

\* the code after the loop: the report is dumped (download_all dumps none)
\* and the run returns
after_loop ==
    /\ phase = "loop"
    /\ idx > Len(pdf_list)
    /\ manifest' = IF script = "all" THEN manifest ELSE JsonFile(Report, FALSE)
    /\ phase' = "returned"
    /\ UNCHANGED dl_vars

\* KeyboardInterrupt, or an exception no handler of the script catches,
\* between two units of work: before an iteration, or after the loop and
\* before the report is dumped
interrupt ==
    /\ phase = "loop"
    /\ phase' = "interrupted"
    /\ UNCHANGED <<manifest, dl_vars>>

\* what f.write may leave of a payload when it is cut short
Prefixes(payload) ==
    { [size |-> n, head |-> IF n >= Len(S_PDF) THEN payload.head ELSE <<>>, partial |-> TRUE] :
        n \in {0, MinSize + 1} \cap 0..(payload.size - 1) }

\* the interrupt arrives while an iteration writes the payload to the output
\* path
interrupt_write ==
    /\ phase = "loop"
    /\ idx <= Len(pdf_list)
    /\ LET Cut(path) ==
               /\ ~SkipExisting(path)
               /\ \E payload \in Payloads \cup {[size |-> MinSize + 2, head |-> S_PDF]} :
                     /\ Verified(payload)
                     /\ \E part \in Prefixes(payload) : disk' = WriteFile(path, part)
       IN  Cut(OutputPath(pdf_list[idx], idx))
    /\ phase' = "interrupted"
    /\ UNCHANGED <<manifest, script, pdf_list, idx, downloaded, failed, total_size, run,
                   trace, prev_ok>>

\* the interrupt arrives while json.dump writes the report
interrupt_dump ==
    /\ phase = "loop"
    /\ idx > Len(pdf_list)
    /\ script # "all"
    /\ manifest' = JsonFile(Report, TRUE)
    /\ phase' = "interrupted"
    /\ UNCHANGED dl_vars

\* no run has been started
RunIdle == manifest = NoManifest /\ phase = "loop"

(***************************************************************************)
(* The top-level invocations: main of discovery_agent.py and               *)
(* SpiderTool.interactive_crawl                                            *)
(***************************************************************************)
VARIABLES
    pc,        \* where the invocation is: "start", "prompt" (blocked in input()),
               \* "expand" (in the for loop over selected), "returned",
               \* "interrupted"
    selected,  \* the links of selected the for loop has not handled yet
    choice,    \* what input() gave in this session; "none" before the prompt
    file,      \* the state file on disk
    session,   \* number of the session that runs
    first      \* history: the choice and the document URLs of the first session

top_vars == <<pc, selected, choice, file, session, first>>

\* sys.argv[1] of both mains
start_url == U_e

\* no state file has been written
NoFile ==
    [saved |-> FALSE, partial |-> FALSE, visited |-> {}, pdfs |-> <<>>, links |-> <<>>,
     pages |-> <<>>]

\* the state both save_state methods dump: visited and pdfs, and links
\* (DiscoveryTool) or pages (SpiderTool)
save_state ==
    [saved |-> TRUE, partial |-> FALSE, visited |-> visited', pdfs |-> discovered_pdfs',
     links |-> discovered_links', pages |-> crawl_log']

\* what save_state leaves when json.dump is cut short: the file holds a
\* part of the text
save_state_cut == [save_state EXCEPT !.partial = TRUE]

\* what the user may type at the prompt, stripped and lowered
Choices == {"stop", "all", "1", "2", "x"}

\* current_page.nav_links[:5]
AllLimit == 5

\* selected for a choice that is 'all' or a list of numbers
Selected(nav_links, c) ==
    IF c = "all" THEN Take(nav_links, AllLimit)
    ELSE LET Chosen(i) == IF 0 <= i /\ i < Len(nav_links) THEN <<nav_links[i + 1]>> ELSE <<>>
         IN  Chosen((IF c = "1" THEN 1 ELSE 2) - 1)

\* main of discovery_agent.py started on url: the initial crawl, the report,
\* save_state
main_argv(url) ==
    /\ pc = "start"
    /\ discover_from_page(url, 0)
    /\ file' = save_state
    /\ pc' = "returned"
    /\ UNCHANGED <<selected, choice, session, first>>

\* main of discovery_agent.py on the seed of the sessions
main == main_argv(start_url)

\* main of discovery_agent.py, interrupted while save_state writes the file
main_interrupted ==
    /\ pc = "start"
    /\ discover_from_page(start_url, 0)
    /\ file' = save_state_cut
    /\ pc' = "interrupted"
    /\ UNCHANGED <<selected, choice, session, first>>

\* interactive_crawl up to the prompt: the initial crawl, and the returns
\* that need no selection
interactive_crawl ==
    /\ pc = "start"
    /\ crawl_page(start_url, 0)
    /\ IF last'.status = "None"
       THEN pc' = "returned" /\ file' = file
       ELSE IF discovered_pdfs' # <<>>
       THEN pc' = "returned" /\ file' = save_state
       ELSE IF crawl_log'[Len(crawl_log')].nav_links # <<>>
       THEN pc' = "prompt" /\ file' = file
       ELSE pc' = "returned" /\ file' = file
    /\ UNCHANGED <<selected, choice, session, first>>

\* interactive_crawl from the return of input() to the for loop
interactive_crawl_input(c) ==
    /\ pc = "prompt"
    /\ UNCHANGED <<crawl_vars, session, first>>
    /\ choice' = c
    /\ IF c \in {"stop", "x"}
       THEN pc' = "returned" /\ file' = save_state /\ selected' = <<>>
       ELSE /\ pc' = "expand"
            /\ selected' = Selected(crawl_log[1].nav_links, c)
            /\ file' = file

\* one iteration of for link in selected
interactive_crawl_expand ==
    /\ pc = "expand"
    /\ selected # <<>>
    /\ crawl_page(Head(selected).url, 1)
    /\ selected' = Tail(selected)
    /\ UNCHANGED <<pc, choice, file, session, first>>

\* interactive_crawl after the for loop: the summary and save_state
interactive_crawl_summary ==
    /\ pc = "expand"
    /\ selected = <<>>
    /\ UNCHANGED <<crawl_vars, selected, choice, session, first>>
    /\ pc' = "returned"
    /\ file' = save_state

\* the program is started again: a fresh tool object on the same seed, the
\* same max_depth and the same web; the state file is still on disk
new_session ==
    /\ pc = "returned"
    /\ session = 1
    /\ session' = 2
    /\ first' = [choice |-> choice, docs |-> {discovered_pdfs[i].url : i \in DOMAIN discovered_pdfs}]
    /\ pc' = "start"
    /\ choice' = "none"
    /\ visited' = {}
    /\ discovered_links' = <<>>
    /\ discovered_pdfs' = <<>>
    /\ crawl_log' = <<>>
    /\ fetch_log' = <<>>
    /\ last' = Outcome(<<>>, 0, "init", "not_called", NoCounts)
    /\ UNCHANGED <<tool, max_depth, site, selected, file>>

\* no top-level invocation has been started
TopIdle ==
    /\ pc = "start"
    /\ selected = <<>>
    /\ choice = "none"
    /\ file = NoFile
    /\ session = 1
    /\ first = [choice |-> "none", docs |-> {}]

(***************************************************************************)
(* The agent orchestrator: agent_orchestrator.py and the programs it runs  *)
(* as tasks                                                                *)
(***************************************************************************)
VARIABLES
    action,      \* args.action of the command that runs; "none" before main
    tasks,       \* agent.tasks: the tasks that have run, as [name, status, returncode]
    child,       \* the task subprocess.run waits for; "none" when there is none
    returncode,  \* result.returncode of child; -1 while it runs
    exit_code,   \* exit code of the command; -1 while it runs
    out,         \* what the command printed last: a report, a traceback, nothing
    other_file,  \* the state file of the tool that is not in tool
    commands,    \* number of the command that runs
    prev         \* history: out of the command before this one

agent_vars ==
    <<action, tasks, child, returncode, exit_code, out, other_file, commands, prev>>

\* commands one behaviour runs
MaxCommands == 2

\* pdfs[:10] of get_report
ReportPdfs == 10

\* the choices of the action argument
Actions == {"workflow", "discover", "batch_discover", "download", "process", "report"}

\* reference/spider_state.json
spider_state == IF tool = "spider" THEN file ELSE other_file

\* reference/discovery_state.json
discovery_state == IF tool = "discovery" THEN file ELSE other_file

\* what open(path) in mode 'w' leaves of the file at path before anything is
\* written: an empty file
open_read_Truncating(f) == [f EXCEPT !.saved = TRUE, !.partial = TRUE]

\* what open(path) in mode 'r' leaves of the file at path
open_read(f) == f

\* json.load on the file: the exception it raises ("" for none) and the dict
json_load(f) ==
    IF ~f.saved THEN [raised |-> "FileNotFoundError", value |-> f]
    ELSE IF f.partial THEN [raised |-> "JSONDecodeError", value |-> f]
    ELSE [raised |-> "", value |-> f]

\* the dict get_state returns when no state file is found
no_state == [status |-> "no_state", pdfs |-> <<>>, pages |-> <<>>, visited |-> {}]

\* EpsteinAgent.get_state: the first state file that opens
get_state ==
    LET Load(f, rest) ==
            IF json_load(f).raised = "FileNotFoundError" THEN rest
            ELSE IF json_load(f).raised # "" THEN [raised |-> json_load(f).raised, state |-> no_state]
            ELSE [raised |-> "",
                  state |-> [status |-> "loaded", pdfs |-> f.pdfs, pages |-> f.pages,
                             visited |-> f.visited]]
    IN  Load(spider_state, Load(discovery_state, [raised |-> "", state |-> no_state]))

\* the dict get_download_manifest returns when no manifest is found
no_manifest == [status |-> "no_manifest", downloaded |-> <<>>, failed |-> <<>>]

\* EpsteinAgent.get_download_manifest
get_download_manifest ==
    IF json_load(manifest).raised = "FileNotFoundError" THEN [raised |-> "", manifest |-> no_manifest]
    ELSE IF json_load(manifest).raised # "" THEN [raised |-> json_load(manifest).raised, manifest |-> no_manifest]
    ELSE [raised |-> "",
          manifest |-> [status |-> "loaded", downloaded |-> manifest.content.downloaded,
                        failed |-> manifest.content.failed]]

\* load_discovery_state of download_orchestrator.py
load_discovery_state ==
    IF json_load(discovery_state).raised = "FileNotFoundError" THEN [raised |-> "", pdfs |-> <<>>]
    ELSE IF json_load(discovery_state).raised # "" THEN [raised |-> json_load(discovery_state).raised, pdfs |-> <<>>]
    ELSE [raised |-> "", pdfs |-> discovery_state.pdfs]

\* the lines under NEXT STEPS
next_steps(state, mf) ==
    IF state.status = "no_state" THEN <<"discover">>
    ELSE IF mf.downloaded = <<>> THEN <<"download", "process">>
    ELSE <<"process">>

\* EpsteinAgent.get_report with self.tasks = ts: the exception it raises, and
\* the lines of the text by section
get_report(ts) ==
    LET Text(state, mf) ==
            [state |-> IF state.status = "no_state" THEN <<>>
                       ELSE <<Len(state.pdfs), Cardinality(state.visited),
                              [i \in DOMAIN Take(state.pdfs, ReportPdfs) |-> state.pdfs[i].url]>>,
             downloaded |-> Len(mf.downloaded),
             failed |-> Len(mf.failed),
             history |-> ts,
             next |-> next_steps(state, mf)]
    IN  IF get_state.raised # "" THEN [raised |-> get_state.raised, text |-> <<>>]
        ELSE IF get_download_manifest.raised # ""
        THEN [raised |-> get_download_manifest.raised, text |-> <<>>]
        ELSE [raised |-> "", text |-> Text(get_state.state, get_download_manifest.manifest)]

\* nothing printed
NoOut == [kind |-> "none"]

\* the traceback of an exception nothing catches
Traceback(e) == [kind |-> "traceback", raised |-> e]

\* a printed report, with the persisted files it was rendered from
Printed(text) ==
    [kind |-> "report", text |-> text, of |-> <<spider_state, discovery_state, manifest>>]

\* mutant of Status: every finished task is COMPLETE
Status_AlwaysComplete(rc) == "complete"

\* TaskStatus of a finished task
Status(rc) == IF rc = 0 THEN "complete" ELSE "failed"

\* the end of main: sys.exit(1) when the last task failed
ExitCode(ts) == IF ts # <<>> /\ ts[Len(ts)].status = "failed" THEN 1 ELSE 0

\* a crawler process is started with tool t: a fresh tool object; its state
\* file is the one at the default path of t
start_crawler(t) ==
    /\ tool' = t
    /\ visited' = {}
    /\ discovered_links' = <<>>
    /\ discovered_pdfs' = <<>>
    /\ crawl_log' = <<>>
    /\ fetch_log' = <<>>
    /\ last' = Outcome(<<>>, 0, "init", "not_called", NoCounts)
    /\ file' = IF t = tool THEN file ELSE other_file
    /\ other_file' = IF t = tool THEN other_file ELSE file
    /\ pc' = "start"
    /\ selected' = <<>>
    /\ choice' = "none"
    /\ UNCHANGED <<max_depth, site, session, first>>

\* main of agent_orchestrator.py up to the first subprocess.run, or to its
\* end for report
agent_main(a) ==
    /\ action = "none"
    /\ action' = a
    /\ UNCHANGED <<tasks, commands, prev, dl_vars, manifest>>
    /\ CASE a \in {"workflow", "batch_discover"} ->
              /\ start_crawler("discovery")
              /\ child' = "batch_discover"
              /\ UNCHANGED <<returncode, exit_code, out, phase>>
         [] a = "discover" ->
              /\ start_crawler("spider")
              /\ child' = "discover"
              /\ UNCHANGED <<returncode, exit_code, out, phase>>
         [] a = "download" ->
              /\ child' = "download"
              /\ phase' = "main"
              /\ UNCHANGED <<returncode, exit_code, out, other_file, crawl_vars, top_vars>>
         [] a = "process" ->
              /\ child' = "process"
              /\ UNCHANGED <<returncode, exit_code, out, other_file, crawl_vars, top_vars, phase>>
         [] a = "report" ->
              /\ file' = open_read(file)
              /\ other_file' = open_read(other_file)
              /\ out' = IF get_report(tasks).raised # "" THEN Traceback(get_report(tasks).raised)
                        ELSE Printed(get_report(tasks).text)
              /\ exit_code' = IF get_report(tasks).raised # "" THEN 1 ELSE ExitCode(tasks)
              /\ UNCHANGED <<child, returncode, crawl_vars, pc, selected, choice, session,
                             first, phase>>

\* what the steps of a child leave alone in the agent
AgentWaits == UNCHANGED <<action, tasks, child, exit_code, out, other_file, commands, prev>>

\* returncode of a crawler that is at pc
CrawlerCode(at) == IF at = "returned" THEN 0 ELSE IF at = "interrupted" THEN 1 ELSE -1

\* scripts/discovery_agent.py as the task batch_discover
task_batch_discover ==
    /\ child = "batch_discover"
    /\ returncode = -1
    /\ main
    /\ returncode' = 0
    /\ AgentWaits
    /\ UNCHANGED <<dl_vars, run_vars>>

\* the same, interrupted while it saves the state
task_batch_discover_interrupted ==
    /\ child = "batch_discover"
    /\ returncode = -1
    /\ main_interrupted
    /\ returncode' = 1
    /\ AgentWaits
    /\ UNCHANGED <<dl_vars, run_vars>>

\* scripts/spider_agent.py as the task discover: interactive_crawl up to
\* the prompt
task_discover ==
    /\ child = "discover"
    /\ returncode = -1
    /\ interactive_crawl
    /\ returncode' = CrawlerCode(pc')
    /\ AgentWaits
    /\ UNCHANGED <<dl_vars, run_vars>>

\* the task discover from the return of input()
task_discover_input(c) ==
    /\ child = "discover"
    /\ returncode = -1
    /\ interactive_crawl_input(c)
    /\ returncode' = CrawlerCode(pc')
    /\ AgentWaits
    /\ UNCHANGED <<dl_vars, run_vars>>

\* the task discover in its for loop
task_discover_expand ==
    /\ child = "discover"
    /\ returncode = -1
    /\ interactive_crawl_expand
    /\ returncode' = CrawlerCode(pc')
    /\ AgentWaits
    /\ UNCHANGED <<dl_vars, run_vars>>

\* the task discover after its for loop
task_discover_summary ==
    /\ child = "discover"
    /\ returncode = -1
    /\ interactive_crawl_summary
    /\ returncode' = CrawlerCode(pc')
    /\ AgentWaits
    /\ UNCHANGED <<dl_vars, run_vars>>

\* what input() of the download task may give: yes, no, or EOFError
Confirmations == {"y", "n", "EOFError"}

\* main of download_orchestrator.py up to the call of download_pdfs; the
\* process starts with no list of its own
download_main ==
    /\ child = "download"
    /\ returncode = -1
    /\ phase = "main"
    /\ file' = IF tool = "discovery" THEN open_read(file) ELSE file
    /\ other_file' = IF tool = "discovery" THEN other_file ELSE open_read(other_file)
    /\ UNCHANGED <<crawl_vars, pc, selected, choice, session, first, manifest, disk, run>>
    /\ UNCHANGED <<action, tasks, child, exit_code, out, commands, prev>>
    /\ script' = "orchestrator"
    /\ idx' = 1
    /\ downloaded' = <<>>
    /\ failed' = <<>>
    /\ total_size' = 0
    /\ trace' = <<>>
    /\ prev_ok' = {}
    /\ IF load_discovery_state.raised # ""
       THEN phase' = "interrupted" /\ returncode' = 1 /\ pdf_list' = <<>>
       ELSE IF load_discovery_state.pdfs = <<>>
       THEN phase' = "returned" /\ returncode' = 0 /\ pdf_list' = <<>>
       ELSE \E response \in Confirmations :
               CASE response = "EOFError" ->
                      phase' = "interrupted" /\ returncode' = 1 /\ pdf_list' = <<>>
                 [] response = "n" ->
                      phase' = "returned" /\ returncode' = 0 /\ pdf_list' = <<>>
                 [] response = "y" ->
                      /\ phase' = "loop"
                      /\ returncode' = -1
                      /\ pdf_list' = [i \in DOMAIN load_discovery_state.pdfs |->
                                          load_discovery_state.pdfs[i].url]

\* the task download in the loop of download_pdfs
task_download_pdfs ==
    /\ child = "download"
    /\ returncode = -1
    /\ phase = "loop"
    /\ download_pdfs
    /\ AgentWaits
    /\ UNCHANGED <<returncode, crawl_vars, top_vars, run_vars>>

\* the task download after the loop: generate_report, save_manifest, return
task_download_return ==
    /\ child = "download"
    /\ returncode = -1
    /\ after_loop
    /\ returncode' = 0
    /\ AgentWaits
    /\ UNCHANGED <<crawl_vars, top_vars>>

\* the task download, interrupted between two units of work
task_download_interrupt ==
    /\ child = "download"
    /\ returncode = -1
    /\ interrupt
    /\ returncode' = 1
    /\ AgentWaits
    /\ UNCHANGED <<crawl_vars, top_vars>>

\* the task download, interrupted while it dumps the manifest
task_download_interrupt_dump ==
    /\ child = "download"
    /\ returncode = -1
    /\ interrupt_dump
    /\ returncode' = 1
    /\ AgentWaits
    /\ UNCHANGED <<crawl_vars, top_vars>>

\* bash scripts/process.sh as the task process: the script is not among the
\* sources, so its return code is any and its files are left out
task_process ==
    /\ child = "process"
    /\ returncode = -1
    /\ returncode' \in {0, 1}
    /\ AgentWaits
    /\ UNCHANGED <<crawl_vars, dl_vars, top_vars, run_vars>>

\* mutant of workflow_next: the stages follow each other without gates
workflow_next_Ungated(name, status, pdfs) ==
    CASE name = "batch_discover" -> "download"
      [] name = "download" -> "process"
      [] OTHER -> "report"

\* run_workflow: what follows the task name that ended with status, pdfs
\* being state.get("pdfs") of the state loaded after discovery
workflow_next(name, status, pdfs) ==
    CASE name = "batch_discover" ->
            IF status = "failed" THEN "return"
            ELSE IF pdfs = <<>> THEN "return"
            ELSE "download"
      [] name = "download" -> IF status = "failed" THEN "return" ELSE "process"
      [] OTHER -> "report"

\* _run_task from the return of subprocess.run, and its caller up to the
\* next subprocess.run or to the end of main
run_task_return ==
    /\ child # "none"
    /\ returncode # -1
    /\ returncode' = -1
    /\ UNCHANGED <<action, commands, prev, crawl_vars, dl_vars, pc, selected, choice, session,
                   first, manifest>>
    /\ LET ts == Append(tasks, [name |-> child, status |-> Status(returncode),
                                 returncode |-> returncode])
           End(code, printed) ==
               /\ child' = "none"
               /\ exit_code' = code
               /\ out' = printed
               /\ UNCHANGED <<phase, file, other_file>>
           Start(name) ==
               /\ child' = name
               /\ phase' = IF name = "download" THEN "main" ELSE phase
               /\ UNCHANGED <<exit_code, out, file, other_file>>
           Follow(next) ==
               CASE next = "return" -> End(ExitCode(ts), out)
                 [] next = "report" ->
                      IF get_report(ts).raised # ""
                      THEN End(1, Traceback(get_report(ts).raised))
                      ELSE End(ExitCode(ts), Printed(get_report(ts).text))
                 [] OTHER -> Start(next)
       IN  /\ tasks' = ts
           /\ IF action # "workflow" THEN End(ExitCode(ts), out)
              ELSE IF child = "batch_discover" /\ Status(returncode) = "complete"
                        /\ get_state.raised # ""
              THEN End(1, Traceback(get_state.raised))
              ELSE Follow(workflow_next(child, Status(returncode), get_state.state.pdfs))

\* the orchestrator is run again: a new process, the files still on disk
agent_again ==
    /\ action # "none"
    /\ exit_code # -1
    /\ commands < MaxCommands
    /\ commands' = commands + 1
    /\ prev' = out
    /\ action' = "none"
    /\ tasks' = <<>>
    /\ exit_code' = -1
    /\ out' = NoOut
    /\ UNCHANGED <<child, returncode, other_file, crawl_vars, dl_vars, top_vars, run_vars>>

\* no command has been run
AgentIdle ==
    /\ action = "none"
    /\ tasks = <<>>
    /\ child = "none"
    /\ returncode = -1
    /\ exit_code = -1
    /\ out = NoOut
    /\ other_file = NoFile
    /\ commands = 1
    /\ prev = NoOut

(***************************************************************************)
(* download_zip_files.py: the loop over the data sets and the download     *)
(* handlers it starts as tasks                                             *)
(***************************************************************************)
VARIABLES
    zip_i,             \* i of the for loop
    zip_pc,            \* where download_datasets is: "top" (of the loop), "goto",
                       \* "sleep", "close", "done"
    zip_context,       \* the data set whose browser context is open; 0 for none
    zip_handler,       \* data set -> the task of handle_download started for it:
                       \* "none", "running", "saved", "failed", "cancelled"
    zip_files,         \* data set -> size of reference/DataSet_{i}.zip; -1: no file
    download_success   \* the flag the handler sets

zip_vars == <<zip_i, zip_pc, zip_context, zip_handler, zip_files, download_success>>

\* data sets of range(1, 8) the loop runs over
MaxSets == 2

\* size > 100000
ZipMinSize == 100000

\* sizes a saved ZIP file may have
ZipSizes == {ZipMinSize, ZipMinSize + 1}

\* the top of the loop when the file exists and is large enough: continue
zip_skip ==
    /\ zip_pc = "top"
    /\ zip_i <= MaxSets
    /\ zip_files[zip_i] > ZipMinSize
    /\ zip_i' = zip_i + 1
    /\ UNCHANGED <<zip_pc, zip_context, zip_handler, zip_files, download_success>>

\* the top of the loop otherwise: a new context and page, the flag, the
\* handler registered with page.on
zip_open ==
    /\ zip_pc = "top"
    /\ zip_i <= MaxSets
    /\ ~(zip_files[zip_i] > ZipMinSize)
    /\ zip_context' = zip_i
    /\ download_success' = FALSE
    /\ zip_pc' = "goto"
    /\ UNCHANGED <<zip_i, zip_handler, zip_files>>

\* what the two page.goto calls may give: the download event (the lambda
\* starts handle_download as a task), a page without a download, an error
GotoOutcomes == {"download", "page", "error"}

\* the two page.goto calls
zip_goto(outcome) ==
    /\ zip_pc = "goto"
    /\ zip_handler' = IF outcome = "download"
                      THEN [zip_handler EXCEPT ![zip_i] = "running"]
                      ELSE zip_handler
    /\ zip_pc' = IF outcome = "error" THEN "close" ELSE "sleep"
    /\ UNCHANGED <<zip_i, zip_context, zip_files, download_success>>

\* await asyncio.sleep(5) has returned
zip_sleep ==
    /\ zip_pc = "sleep"
    /\ zip_pc' = "close"
    /\ UNCHANGED <<zip_i, zip_context, zip_handler, zip_files, download_success>>

\* finally: await context.close(), and on to the next data set
zip_close ==
    /\ zip_pc = "close"
    /\ zip_context' = 0
    /\ zip_i' = zip_i + 1
    /\ zip_pc' = "top"
    /\ UNCHANGED <<zip_handler, zip_files, download_success>>

\* handle_download of data set d: download.save_as returns, which it can
\* only while the context of d is open
handle_download_saved(d) ==
    /\ zip_handler[d] = "running"
    /\ zip_context = d
    /\ \E size \in ZipSizes : zip_files' = [zip_files EXCEPT ![d] = size]
    /\ download_success' = TRUE
    /\ zip_handler' = [zip_handler EXCEPT ![d] = "saved"]
    /\ UNCHANGED <<zip_i, zip_pc, zip_context>>

\* handle_download of data set d: download.save_as raises
handle_download_failed(d) ==
    /\ zip_handler[d] = "running"
    /\ zip_handler' = [zip_handler EXCEPT ![d] = "failed"]
    /\ UNCHANGED <<zip_i, zip_pc, zip_context, zip_files, download_success>>

\* after the loop: browser.close(), the summary, and the end of asyncio.run,
\* which cancels the tasks that are left
zip_done ==
    /\ zip_pc = "top"
    /\ zip_i > MaxSets
    /\ zip_pc' = "done"
    /\ zip_handler' = [d \in DOMAIN zip_handler |->
                          IF zip_handler[d] = "running" THEN "cancelled" ELSE zip_handler[d]]
    /\ UNCHANGED <<zip_i, zip_context, zip_files, download_success>>

\* download_datasets has been called with the files on disk
ZipStart(files) ==
    /\ zip_i = 1
    /\ zip_pc = "top"
    /\ zip_context = 0
    /\ zip_handler = [d \in 1..MaxSets |-> "none"]
    /\ zip_files = files
    /\ download_success = FALSE

\* download_datasets has not been called
ZipIdle == ZipStart([d \in 1..MaxSets |-> -1])

(***************************************************************************)
(* discover_all_datasets of download_all_epstein.py                        *)
(***************************************************************************)
VARIABLES
    ds_i,      \* i of the for loop
    all_pdfs,  \* the combined list
    found,     \* history: for each iteration, whether its discovery run wrote a
               \* state and the PDFs it found
    combined   \* reference/epstein_manifest.json

ds_vars == <<ds_i, all_pdfs, found, combined>>

batch_vars == <<zip_vars, ds_vars>>

\* data sets of range(1, 10) the loop runs over
MaxDatasets == 2

\* the url of data set i
DatasetUrl(i) == IF i = 1 THEN U_e ELSE U_b

\* the subprocess of iteration i: main of discovery_agent.py on the url of
\* the data set
dataset_run ==
    /\ ds_i <= MaxDatasets
    /\ main_argv(DatasetUrl(ds_i))
    /\ found' = Append(found, [wrote |-> TRUE, pdfs |-> discovered_pdfs'])
    /\ UNCHANGED <<ds_i, all_pdfs, combined>>

\* the subprocess of iteration i ends without writing a state; its return
\* code is not looked at
dataset_run_failed ==
    /\ ds_i <= MaxDatasets
    /\ pc = "start"
    /\ pc' = "interrupted"
    /\ found' = Append(found, [wrote |-> FALSE, pdfs |-> <<>>])
    /\ UNCHANGED <<crawl_vars, selected, choice, file, session, first, ds_i, all_pdfs,
                   combined>>

\* the rest of iteration i: the state file is loaded and its pdfs are added;
\* any exception adds nothing. The next subprocess starts from a fresh tool.
dataset_load ==
    /\ ds_i <= MaxDatasets
    /\ pc \in {"returned", "interrupted"}
    /\ all_pdfs' = IF json_load(file).raised = "" THEN all_pdfs \o file.pdfs ELSE all_pdfs
    /\ ds_i' = ds_i + 1
    /\ pc' = "start"
    /\ visited' = {}
    /\ discovered_links' = <<>>
    /\ discovered_pdfs' = <<>>
    /\ crawl_log' = <<>>
    /\ fetch_log' = <<>>
    /\ last' = Outcome(<<>>, 0, "init", "not_called", NoCounts)
    /\ UNCHANGED <<tool, max_depth, site, selected, choice, file, session, first, found,
                   combined>>

\* after the loop: the combined manifest is dumped
dataset_save ==
    /\ ds_i > MaxDatasets
    /\ ~combined.saved
    /\ combined' = JsonFile([total_pdfs |-> Len(all_pdfs), pdfs |-> all_pdfs], FALSE)
    /\ UNCHANGED <<crawl_vars, top_vars, ds_i, all_pdfs, found>>

\* discover_all_datasets has not run
DatasetsIdle ==
    /\ ds_i = 1
    /\ all_pdfs = <<>>
    /\ found = <<>>
    /\ combined = NoManifest

BatchIdle == ZipIdle /\ DatasetsIdle

(***************************************************************************)
(* Specifications                                                          *)
(***************************************************************************)
\* the depth arguments a driver passes
Depths == 0..(MaxDepthBound + 1)

CrawlInit ==
    /\ tool \in {"discovery", "spider"}
    /\ max_depth \in 0..MaxDepthBound
    /\ visited = {}
    /\ discovered_links = <<>>
    /\ discovered_pdfs = <<>>
    /\ crawl_log = <<>>
    /\ fetch_log = <<>>
    /\ site = AnySite
    /\ last = Outcome(<<>>, 0, "init", "not_called", NoCounts)

\* the crawl stage when only the download stage is run
CrawlIdle ==
    /\ tool = "discovery"
    /\ max_depth = 0
    /\ visited = {}
    /\ discovered_links = <<>>
    /\ discovered_pdfs = <<>>
    /\ crawl_log = <<>>
    /\ fetch_log = <<>>
    /\ site = AnySite
    /\ last = Outcome(<<>>, 0, "init", "not_called", NoCounts)

vars == <<crawl_vars, dl_vars, top_vars, run_vars, agent_vars, batch_vars>>

\* one crawl session
Init == CrawlInit /\ DownloadIdle /\ TopIdle /\ RunIdle /\ AgentIdle
    /\ BatchIdle

Next ==
    \/ \E url \in CrawlUrls, depth \in Depths : discover_from_page(url, depth) /\ UNCHANGED <<dl_vars, top_vars, run_vars, agent_vars, batch_vars>>
    \/ \E url \in CrawlUrls, depth \in Depths : crawl_page(url, depth) /\ UNCHANGED <<dl_vars, top_vars, run_vars, agent_vars, batch_vars>>

Spec == Init /\ [][Next]_vars

\* pages of plain or marked text with at most n anchors drawn from anchors
PagesOver(anchors, n, texts) ==
    { [none |-> FALSE, text |-> t, anchors |-> a] :
        t \in texts, a \in UNION { [1..k -> anchors] : k \in 0..n } }

\* such pages that hold no anchor twice
PagesOnceOver(anchors, n, texts) ==
    { p \in PagesOver(anchors, n, texts) :
        \A i, j \in DOMAIN p.anchors : i # j => p.anchors[i] # p.anchors[j] }

PlainText == { <<"p">> }

MarkerTexts == PageTexts \ PlainText

ClassifyPages == PagesOnceOver(ClassifyAnchors, MaxPageLinks, PlainText)

FilterPages == PagesOver(FilterAnchors, MaxLinks, PlainText)

DedupPages == PagesOver(DedupAnchors, MaxLinks, PlainText)

ChallengePages ==
    PagesOver({a \in ClassifyAnchors : a.href \in {H_xPDF, H_b}}, MaxLinks, MarkerTexts)

\* webs of known content: one page whose links are classified or filtered;
\* two pages that link the same target; a page of links and a challenge page
Sites ==
    { KnownSite([u \in {U_e} |-> p]) : p \in ClassifyPages \cup FilterPages }
        \cup { KnownSite([u \in CrawlUrls |-> IF u = U_e THEN p ELSE q]) :
                    p \in DedupPages, q \in PagesOver(DedupAnchors, 1, PlainText) }
        \cup { KnownSite([u \in CrawlUrls |-> IF u = U_e THEN p ELSE q]) :
                    p \in {c \in ClassifyPages : Len(c.anchors) = MaxLinks}
                            \cap PagesOver({a \in ClassifyAnchors : a.href \in {H_xPDF, H_b}},
                                           MaxLinks, PlainText),
                    q \in ChallengePages }

\* a crawl session on a web of known content
InitSite ==
    /\ tool \in {"discovery", "spider"}
    /\ max_depth = MaxDepthBound
    /\ visited = {}
    /\ discovered_links = <<>>
    /\ discovered_pdfs = <<>>
    /\ crawl_log = <<>>
    /\ fetch_log = <<>>
    /\ site \in Sites
    /\ last = Outcome(<<>>, 0, "init", "not_called", NoCounts)
    /\ DownloadIdle
    /\ TopIdle
    /\ RunIdle
    /\ AgentIdle
    /\ BatchIdle

SpecSite == InitSite /\ [][Next]_vars

\* webs for the top-level invocations: the seed page is missing, a challenge
\* page, or a page of up to MaxLinks links; the other page is missing or
\* holds at most one link
TopPages ==
    PagesOver(SessionAnchors, MaxLinks, PlainText)
        \cup PagesOver(SessionAnchors, 0, MarkerTexts) \cup {None}

TopSites ==
    { KnownSite([u \in CrawlUrls |-> IF u = start_url THEN p ELSE q]) :
        p \in TopPages, q \in PagesOver(SessionAnchors, 1, PlainText) \cup {None} }

\* a first session of either tool on a web of known content
InitTop ==
    /\ tool \in {"discovery", "spider"}
    /\ max_depth \in 0..MaxDepthBound
    /\ visited = {}
    /\ discovered_links = <<>>
    /\ discovered_pdfs = <<>>
    /\ crawl_log = <<>>
    /\ fetch_log = <<>>
    /\ site \in TopSites
    /\ last = Outcome(<<>>, 0, "init", "not_called", NoCounts)
    /\ DownloadIdle
    /\ TopIdle
    /\ RunIdle
    /\ AgentIdle
    /\ BatchIdle

NextTop ==
    \/ main /\ UNCHANGED <<dl_vars, run_vars, agent_vars, batch_vars>>
    \/ main_interrupted /\ UNCHANGED <<dl_vars, run_vars, agent_vars, batch_vars>>
    \/ interactive_crawl /\ UNCHANGED <<dl_vars, run_vars, agent_vars, batch_vars>>
    \/ \E c \in Choices : interactive_crawl_input(c) /\ UNCHANGED <<dl_vars, run_vars, agent_vars, batch_vars>>
    \/ interactive_crawl_expand /\ UNCHANGED <<dl_vars, run_vars, agent_vars, batch_vars>>
    \/ interactive_crawl_summary /\ UNCHANGED <<dl_vars, run_vars, agent_vars, batch_vars>>
    \/ new_session /\ UNCHANGED <<dl_vars, run_vars, agent_vars, batch_vars>>

SpecTop == InitTop /\ [][NextTop]_vars

\* a seed that is no URL
U_invalid == <<"n","o","u","r","l">>

\* what DiscoveryTool may be started on
Seeds == {start_url, U_invalid}

\* DiscoveryTool(base_url, max_depth) for any integer max_depth from -1 on
InitConfig ==
    /\ tool = "discovery"
    /\ max_depth \in -1..MaxDepthBound
    /\ visited = {}
    /\ discovered_links = <<>>
    /\ discovered_pdfs = <<>>
    /\ crawl_log = <<>>
    /\ fetch_log = <<>>
    /\ site \in TopSites
    /\ last = Outcome(<<>>, 0, "init", "not_called", NoCounts)
    /\ DownloadIdle
    /\ TopIdle
    /\ RunIdle
    /\ AgentIdle
    /\ BatchIdle

NextConfig ==
    \E url \in Seeds : main_argv(url) /\ UNCHANGED <<dl_vars, run_vars, agent_vars, batch_vars>>

SpecConfig == InitConfig /\ [][NextConfig]_vars

\* max_depth main of spider_agent.py passes
SpiderMaxDepth == 3

\* main of spider_agent.py: SpiderTool(start_url, max_depth=3) on a web of
\* known content
InitSpider ==
    /\ tool = "spider"
    /\ max_depth = SpiderMaxDepth
    /\ visited = {}
    /\ discovered_links = <<>>
    /\ discovered_pdfs = <<>>
    /\ crawl_log = <<>>
    /\ fetch_log = <<>>
    /\ site \in TopSites
    /\ last = Outcome(<<>>, 0, "init", "not_called", NoCounts)
    /\ DownloadIdle
    /\ TopIdle
    /\ RunIdle
    /\ AgentIdle
    /\ BatchIdle

NextSpider ==
    \/ interactive_crawl /\ UNCHANGED <<dl_vars, run_vars, agent_vars, batch_vars>>
    \/ \E c \in Choices : interactive_crawl_input(c) /\ UNCHANGED <<dl_vars, run_vars, agent_vars, batch_vars>>
    \/ interactive_crawl_expand /\ UNCHANGED <<dl_vars, run_vars, agent_vars, batch_vars>>
    \/ interactive_crawl_summary /\ UNCHANGED <<dl_vars, run_vars, agent_vars, batch_vars>>

SpecSpider == InitSpider /\ [][NextSpider]_vars

\* one run of one download script over one list
InitDownload == CrawlIdle /\ DownloadInit /\ TopIdle /\ RunIdle /\ AgentIdle
    /\ BatchIdle

NextDownload ==
    \/ download_pdfs /\ UNCHANGED <<crawl_vars, top_vars, run_vars, agent_vars, batch_vars>>
    \/ download_all_pdfs /\ UNCHANGED <<crawl_vars, top_vars, run_vars, agent_vars, batch_vars>>
    \/ download_with_age_verification /\ UNCHANGED <<crawl_vars, top_vars, run_vars, agent_vars, batch_vars>>
    \/ download_all /\ UNCHANGED <<crawl_vars, top_vars, run_vars, agent_vars, batch_vars>>

SpecDownload == InitDownload /\ [][NextDownload]_vars

\* one run of one download script from its loop to its end
NextRun ==
    \/ phase = "loop" /\ download_pdfs /\ UNCHANGED <<crawl_vars, top_vars, run_vars, agent_vars, batch_vars>>
    \/ phase = "loop" /\ download_all_pdfs /\ UNCHANGED <<crawl_vars, top_vars, run_vars, agent_vars, batch_vars>>
    \/ phase = "loop" /\ download_with_age_verification
          /\ UNCHANGED <<crawl_vars, top_vars, run_vars, agent_vars, batch_vars>>
    \/ phase = "loop" /\ download_all /\ UNCHANGED <<crawl_vars, top_vars, run_vars, agent_vars, batch_vars>>
    \/ after_loop /\ UNCHANGED <<crawl_vars, top_vars, agent_vars, batch_vars>>
    \/ interrupt /\ UNCHANGED <<crawl_vars, top_vars, agent_vars, batch_vars>>
    \/ interrupt_write /\ UNCHANGED <<crawl_vars, top_vars, agent_vars, batch_vars>>
    \/ interrupt_dump /\ UNCHANGED <<crawl_vars, top_vars, agent_vars, batch_vars>>

SpecRun == InitDownload /\ [][NextRun]_vars

\* successive runs of one download script over one list
NextRerun ==
    \/ download_pdfs /\ UNCHANGED <<crawl_vars, top_vars, run_vars, agent_vars, batch_vars>>
    \/ download_all_pdfs /\ UNCHANGED <<crawl_vars, top_vars, run_vars, agent_vars, batch_vars>>
    \/ download_with_age_verification /\ UNCHANGED <<crawl_vars, top_vars, run_vars, agent_vars, batch_vars>>
    \/ download_all /\ UNCHANGED <<crawl_vars, top_vars, run_vars, agent_vars, batch_vars>>
    \/ run_again /\ UNCHANGED <<crawl_vars, top_vars, run_vars, agent_vars, batch_vars>>

SpecRerun == InitDownload /\ [][NextRerun]_vars

\* the commands of the orchestrator on a web of known content; main of
\* spider_agent.py and of discovery_agent.py pass max_depth themselves
InitAgent ==
    /\ tool = "discovery"
    /\ max_depth = MaxDepthBound
    /\ visited = {}
    /\ discovered_links = <<>>
    /\ discovered_pdfs = <<>>
    /\ crawl_log = <<>>
    /\ fetch_log = <<>>
    /\ site \in TopSites
    /\ last = Outcome(<<>>, 0, "init", "not_called", NoCounts)
    /\ DownloadIdle
    /\ TopIdle
    /\ RunIdle
    /\ AgentIdle
    /\ BatchIdle

NextAgent ==
    \/ \E a \in Actions : agent_main(a) /\ UNCHANGED batch_vars
    \/ task_batch_discover /\ UNCHANGED batch_vars
    \/ task_batch_discover_interrupted /\ UNCHANGED batch_vars
    \/ task_discover /\ UNCHANGED batch_vars
    \/ \E c \in Choices : task_discover_input(c) /\ UNCHANGED batch_vars
    \/ task_discover_expand /\ UNCHANGED batch_vars
    \/ task_discover_summary /\ UNCHANGED batch_vars
    \/ download_main /\ UNCHANGED batch_vars
    \/ task_download_pdfs /\ UNCHANGED batch_vars
    \/ task_download_return /\ UNCHANGED batch_vars
    \/ task_download_interrupt /\ UNCHANGED batch_vars
    \/ task_download_interrupt_dump /\ UNCHANGED batch_vars
    \/ task_process /\ UNCHANGED batch_vars
    \/ run_task_return /\ UNCHANGED batch_vars
    \/ agent_again /\ UNCHANGED batch_vars

SpecAgent == InitAgent /\ [][NextAgent]_vars

\* download_datasets with any files on disk
InitZip ==
    /\ CrawlIdle /\ DownloadIdle /\ TopIdle /\ RunIdle /\ AgentIdle /\ DatasetsIdle
    /\ \E files \in [1..MaxSets -> {-1} \cup ZipSizes] : ZipStart(files)

NextZip ==
    \/ zip_skip /\ UNCHANGED <<crawl_vars, dl_vars, top_vars, run_vars, agent_vars, ds_vars>>
    \/ zip_open /\ UNCHANGED <<crawl_vars, dl_vars, top_vars, run_vars, agent_vars, ds_vars>>
    \/ \E outcome \in GotoOutcomes : zip_goto(outcome) /\ UNCHANGED <<crawl_vars, dl_vars, top_vars, run_vars, agent_vars, ds_vars>>
    \/ zip_sleep /\ UNCHANGED <<crawl_vars, dl_vars, top_vars, run_vars, agent_vars, ds_vars>>
    \/ zip_close /\ UNCHANGED <<crawl_vars, dl_vars, top_vars, run_vars, agent_vars, ds_vars>>
    \/ \E d \in 1..MaxSets : handle_download_saved(d) /\ UNCHANGED <<crawl_vars, dl_vars, top_vars, run_vars, agent_vars, ds_vars>>
    \/ \E d \in 1..MaxSets : handle_download_failed(d) /\ UNCHANGED <<crawl_vars, dl_vars, top_vars, run_vars, agent_vars, ds_vars>>
    \/ zip_done /\ UNCHANGED <<crawl_vars, dl_vars, top_vars, run_vars, agent_vars, ds_vars>>

SpecZip == InitZip /\ [][NextZip]_vars

\* discover_all_datasets on a web of known content
InitDatasets ==
    /\ tool = "discovery"
    /\ max_depth = MaxDepthBound
    /\ visited = {}
    /\ discovered_links = <<>>
    /\ discovered_pdfs = <<>>
    /\ crawl_log = <<>>
    /\ fetch_log = <<>>
    /\ site \in TopSites
    /\ last = Outcome(<<>>, 0, "init", "not_called", NoCounts)
    /\ DownloadIdle
    /\ TopIdle
    /\ RunIdle
    /\ AgentIdle
    /\ BatchIdle

NextDatasets ==
    \/ dataset_run /\ UNCHANGED <<dl_vars, run_vars, agent_vars, zip_vars>>
    \/ dataset_run_failed /\ UNCHANGED <<dl_vars, run_vars, agent_vars, zip_vars>>
    \/ dataset_load /\ UNCHANGED <<dl_vars, run_vars, agent_vars, zip_vars>>
    \/ dataset_save /\ UNCHANGED <<dl_vars, run_vars, agent_vars, zip_vars>>

SpecDatasets == InitDatasets /\ [][NextDatasets]_vars

(***************************************************************************)
(* Properties of a crawl session (checked under Spec)                      *)
(***************************************************************************)
FetchedUrls == {fetch_log[i].url : i \in DOMAIN fetch_log}

\* C1: fetch_page is invoked at most once per URL in a session: no URL occurs
\* twice in the log of fetch_page invocations, and visited is exactly the set
\* of fetched URLs, so a call on a visited URL (whatever its earlier fetch
\* gave) fetches nothing.
C1_NoRefetch ==
    /\ \A i, j \in DOMAIN fetch_log : i # j => fetch_log[i].url # fetch_log[j].url
    /\ visited = FetchedUrls

\* a spider call at an allowed depth on a URL whose only fetch gave no page
\* (failed or blocked) was answered without a fetch
C1_Witness ==
    /\ tool = "spider"
    /\ crawl_log = <<>>
    /\ Len(fetch_log) = 1
    /\ last.url = fetch_log[1].url
    /\ last.depth <= max_depth
    /\ last.fetch = "not_called"

\* C7: every discovered document and navigation link has depth <= max_depth,
\* and no fetch was made by a call whose depth exceeds max_depth.
C7_DepthBound ==
    /\ \A i \in DOMAIN discovered_pdfs : discovered_pdfs[i].depth <= max_depth
    /\ \A i \in DOMAIN discovered_links : discovered_links[i].depth <= max_depth
    /\ \A i \in DOMAIN crawl_log : crawl_log[i].depth <= max_depth
    /\ \A i \in DOMAIN fetch_log : fetch_log[i].depth <= max_depth

\* documents were recorded at depth max_depth >= 1 and a call beyond
\* max_depth was made
C7_Witness ==
    /\ max_depth >= 1
    /\ \E i \in DOMAIN discovered_pdfs : discovered_pdfs[i].depth = max_depth
    /\ last.depth > max_depth

\* C8: the documents sequence holds no two entries with the same URL.
C8_UniqueDocuments ==
    \A i, j \in DOMAIN discovered_pdfs :
        i # j => discovered_pdfs[i].url # discovered_pdfs[j].url

\* the status a call returns when it does not fetch
SkippedStatus == IF tool = "discovery" THEN "skipped" ELSE "None"

\* the status a call returns when its fetch fails
ErrorStatus == IF tool = "discovery" THEN "error" ELSE "None"

\* C9: a crawl call on u at depth d fetches u iff d <= max_depth and u is not
\* in visited; otherwise it returns the skipped outcome, fetches nothing and
\* leaves visited, documents, navigation links and the crawl log unchanged.
C9_SkipFrame ==
    [][ LET fetches == fetch_log' # fetch_log
        IN  /\ fetches <=> (last'.depth <= max_depth /\ last'.url \notin visited)
            /\ fetches => fetch_log' = Append(fetch_log, [url |-> last'.url, depth |-> last'.depth])
            /\ ~fetches => /\ last'.status = SkippedStatus
                           /\ last'.fetch = "not_called"
                           /\ UNCHANGED <<visited, discovered_pdfs, discovered_links, crawl_log>>
      ]_vars

\* a page was fetched at depth exactly max_depth >= 1, documents are known,
\* and the latest call, beyond max_depth on an unvisited URL, was skipped
C9_Witness ==
    /\ max_depth >= 1
    /\ \E i \in DOMAIN fetch_log : fetch_log[i].depth = max_depth
    /\ discovered_pdfs # <<>>
    /\ last.fetch = "not_called"
    /\ last.depth > max_depth
    /\ last.url \notin visited

\* C10: when the fetch of a non-skipped URL fails (fetch_page gives None or
\* nothing), the call ends with the error outcome, the URL is in visited, and
\* documents and navigation links are as before the call.
C10_FetchFailure ==
    [][ (fetch_log' # fetch_log /\ last'.fetch \in {"None", "empty"}) =>
            /\ last'.status = ErrorStatus
            /\ last'.url \in visited'
            /\ UNCHANGED <<discovered_pdfs, discovered_links, crawl_log>>
      ]_vars

\* after a page gave documents, the fetch of another URL failed
C10_Witness ==
    /\ discovered_pdfs # <<>>
    /\ last.fetch = "None"
    /\ last.url \in visited
    /\ Len(fetch_log) = 2


(***************************************************************************)
(* Properties of a crawl session on a web of known content (checked under  *)
(* SpecSite)                                                               *)
(***************************************************************************)
\* the page the web serves for the URL of the latest call
PageOf(url) == IF url \in DOMAIN site.pages THEN site.pages[url] ELSE None

\* the markup carries a challenge marker: bm-verify, or akamai in any case
ChallengeMarkup(page) ==
    /\ ~Falsy(page)
    /\ \/ Contains(page.text, S_bmverify)
       \/ Contains(Lower(page.text), S_akamai)

\* the status a call returns for a challenge page
BlockedStatus == IF tool = "discovery" THEN "blocked" ELSE "None"

\* C11: when the markup fetched by a call matches the bot-challenge signature,
\* the call ends with the blocked outcome, the URL is in visited, and
\* documents, navigation links and the crawl log are as before the call,
\* whatever links the markup holds.
C11_Blocked ==
    [][ (fetch_log' # fetch_log /\ ChallengeMarkup(PageOf(last'.url))) =>
            /\ last'.status = BlockedStatus
            /\ last'.url \in visited'
            /\ UNCHANGED <<discovered_pdfs, discovered_links, crawl_log>>
      ]_vars

\* after a page gave documents and navigation links, a challenge page that
\* links a document and a navigation target was fetched
C11_Witness ==
    /\ tool = "discovery"
    /\ discovered_pdfs # <<>>
    /\ discovered_links # <<>>
    /\ last.url = U_b
    /\ last.fetch = "markup"
    /\ ChallengeMarkup(PageOf(U_b))
    /\ Len(PageOf(U_b).anchors) = MaxLinks
    /\ \E i, j \in DOMAIN PageOf(U_b).anchors :
          PageOf(U_b).anchors[i].href = H_xPDF /\ PageOf(U_b).anchors[j].href = H_b

\* C12: discovered_links never holds two entries with the same URL, and an
\* entry once stored keeps its text, depth and source page: a call only
\* appends entries, each with the depth and the page of that call, so a later
\* sighting of a stored URL changes nothing.
C12_NavFirstSeenWins ==
    [][ /\ Len(discovered_links') >= Len(discovered_links)
        /\ \A i \in DOMAIN discovered_links : discovered_links'[i] = discovered_links[i]
        /\ \A i \in DOMAIN discovered_links' :
              i > Len(discovered_links) =>
                  /\ discovered_links'[i].depth = last'.depth
                  /\ discovered_links'[i].source_page = last'.url
        /\ \A i, j \in DOMAIN discovered_links' :
              i # j => discovered_links'[i].url # discovered_links'[j].url
      ]_vars

\* a navigation link stored from the seed page at depth 0 under one anchor
\* text was seen again on another page, at depth 1 and under another text,
\* and is still the only entry
C12_Witness ==
    /\ tool = "discovery"
    /\ Len(discovered_links) = 1
    /\ discovered_links[1] =
           [url |-> H_abs_b, text |-> <<"B">>, context |-> <<"B">>, depth |-> 0,
            source_page |-> U_e]
    /\ last.url = U_b
    /\ last.depth = 1
    /\ last.status = "success"
    /\ last.counts.nav_link_count = 1
    /\ PageOf(U_b).anchors = << [href |-> H_abs_b, text |-> <<"D">>] >>

\* the URLs retained as navigation candidates: discovered_links in
\* DiscoveryTool, the nav_links of the logged pages in SpiderTool
NavUrls ==
    {discovered_links[i].url : i \in DOMAIN discovered_links}
        \cup UNION { {crawl_log[i].nav_links[j].url : j \in DOMAIN crawl_log[i].nav_links} :
                       i \in DOMAIN crawl_log }

\* the URLs recorded as documents
DocUrls == {discovered_pdfs[i].url : i \in DOMAIN discovered_pdfs}

\* the host is justice.gov or a subdomain of it
InTargetDomain(netloc) == netloc = S_justice \/ EndsWith(netloc, <<".">> \o S_justice)

\* the path of the URL ends in .pdf, in any letter case
PdfPath(url) == EndsWith(Lower(urlparse(url).path), S_pdf)

\* the pages a session has read links from: fetched, not empty, no challenge
ReadPages == {u \in visited : ~Falsy(PageOf(u)) /\ ~ChallengeMarkup(PageOf(u))}

\* the links of the page at u that the href filter keeps, resolved
KeptLinks(u) ==
    { LinkTable[PageOf(u).anchors[i].href, u] : i \in DOMAIN PageOf(u).anchors }
        \cap {l \in {LinkTable[k] : k \in DOMAIN LinkTable} : l.keep}

\* C13: a non-document link is retained as a navigation candidate iff the
\* host of its resolved URL is justice.gov or a subdomain of it; a link with
\* another host, also one that only ends with the same characters, is never
\* retained.
C13_NavIffTargetDomain ==
    /\ \A url \in NavUrls : InTargetDomain(urlparse(url).netloc)
    /\ \A u \in ReadPages : \A l \in KeptLinks(u) :
          (~PdfPath(l.url) /\ InTargetDomain(l.domain)) => l.url \in NavUrls

\* C13 without the hosts that only end like the target domain: what both
\* tools do keep
NavIffHostEndsWith ==
    /\ \A url \in NavUrls : justice_gov(urlparse(url).netloc)
    /\ \A u \in ReadPages : \A l \in KeptLinks(u) :
          (~PdfPath(l.url) /\ InTargetDomain(l.domain)) => l.url \in NavUrls

\* C14: every kept href whose resolved URL has a path ending in .pdf, in any
\* letter case, is recorded as a document under that URL as it is written,
\* and not as a navigation link, whatever its host and whatever follows the
\* path, in both tools.
C14_PdfPathIsDocument ==
    \A u \in ReadPages : \A l \in KeptLinks(u) :
        PdfPath(l.url) => (l.url \in DocUrls /\ l.url \notin NavUrls)

\* what the tools do record: the URLs that end in .pdf in any letter case,
\* in SpiderTool only those on a host that ends with justice.gov
PdfSuffixIsDocument ==
    \A u \in ReadPages : \A l \in KeptLinks(u) :
        (is_pdf(l.url) /\ (tool = "discovery" \/ justice_gov(l.domain)))
            <=> l.url \in DocUrls


\* the href, stripped, is empty, a fragment-only reference or a script
\* pseudo-URL
SkippedHref(href) ==
    \/ Strip(href) = <<>>
    \/ Head(Strip(href)) = "#"
    \/ Take(Strip(href), Len(S_javascript)) = S_javascript

\* the positions of the anchors of the page at u whose href is not skipped
LinkPositions(u) ==
    {i \in DOMAIN PageOf(u).anchors : ~SkippedHref(PageOf(u).anchors[i].href)}

\* C15: an href that is empty, starts with '#' or starts with 'javascript:'
\* yields no link, with htmlq and with the regex fallback: every recorded
\* document or navigation URL is the resolved URL of an href of a read page
\* that is none of these, and a page's links (the three counts DiscoveryTool
\* returns, the pdf_links and nav_links SpiderTool logs) are no more than its
\* other hrefs, in DiscoveryTool exactly as many.
C15_SkippedHrefsYieldNothing ==
    /\ \A url \in DocUrls \cup NavUrls :
          \E u \in ReadPages : \E i \in LinkPositions(u) :
              LinkTable[PageOf(u).anchors[i].href, u].url = url
    /\ last.status = "success" =>
          last.counts.pdf_count + last.counts.nav_link_count
              + last.counts.external_link_count = Cardinality(LinkPositions(last.url))
    /\ \A i \in DOMAIN crawl_log :
          Len(crawl_log[i].pdf_links) + Len(crawl_log[i].nav_links)
              <= Cardinality(LinkPositions(crawl_log[i].url))

\* DiscoveryTool read a page of a script pseudo-URL and one navigation link
\* with the regex fallback (the stored link has no text) and counted one link
C15_Witness ==
    /\ tool = "discovery"
    /\ last.status = "success"
    /\ last.url = U_e
    /\ PageOf(U_e).anchors = << [href |-> H_js, text |-> <<"I">>], [href |-> H_b, text |-> <<"B">>] >>
    /\ last.counts = Counts(0, 1, 0)
    /\ Len(discovered_links) = 1
    /\ discovered_links[1].url = H_abs_b
    /\ discovered_links[1].text = <<>>


\* the URL has a scheme and a host
Absolute(url) == urlparse(url).scheme # <<>> /\ urlparse(url).netloc # <<>>

\* C16: every URL recorded in documents or navigation links is absolute: an
\* href that is not absolute, also a relative path whose text begins with
\* 'http', is recorded resolved against the URL of its page.
C16_RecordedUrlsAbsolute ==
    \A url \in DocUrls \cup NavUrls : Absolute(url)

\* what the tools do resolve: every href but those whose text begins with
\* 'http', which are taken as they are written
ResolvedUnlessHttpPrefix ==
    \A url \in DocUrls \cup NavUrls : Absolute(url) \/ StartsWith(url, S_http)


H_abs_xPDF == <<"h","t","t","p","s",":","/","/","w","w","w",".","j","u","s","t","i","c","e",".","g","o","v","/","x",".","P","D","F">>

\* the page holds one PDF link, one navigation link of the same domain and
\* one external link, in any order
ScenarioPage(page) ==
    /\ ~Falsy(page)
    /\ Len(page.anchors) = 3
    /\ {page.anchors[i].href : i \in DOMAIN page.anchors} = {H_xPDF, H_b, H_ext}

\* the first and only fetch of the session was made by the latest call, which
\* read the links of the page
SinglePageCrawl ==
    /\ Len(fetch_log) = 1
    /\ last.fetch = "markup"
    /\ last.status \in {"success", "PageData"}

\* the resolved links of the page at u that are not skipped, by position
PageLinks(u) == [i \in LinkPositions(u) |-> LinkTable[PageOf(u).anchors[i].href, u]]

\* C17: a successful single-page crawl of a page of one PDF link, one
\* same-domain navigation link and one external link records exactly the PDF
\* in documents and the same-domain link in navigation links, both with the
\* depth of the call, retains the external link nowhere, and leaves visited
\* holding only the page; and the three counts a successful call returns are
\* the numbers of the page's non-skipped links that are documents, same-domain
\* non-documents and other non-documents, so they add up to the number of
\* these links.
C17_SinglePageCrawl ==
    /\ (SinglePageCrawl /\ ScenarioPage(PageOf(last.url))) =>
          /\ [i \in DOMAIN discovered_pdfs |->
                 <<discovered_pdfs[i].url, discovered_pdfs[i].depth, discovered_pdfs[i].source_page>>]
                 = << <<H_abs_xPDF, last.depth, last.url>> >>
          /\ NavUrls = {H_abs_b}
          /\ \A i \in DOMAIN discovered_links : discovered_links[i].depth = last.depth
          /\ \A i \in DOMAIN crawl_log : crawl_log[i].depth = last.depth
          /\ H_ext \notin DocUrls \cup NavUrls
          /\ visited = {last.url}
          /\ tool = "discovery" => last.counts = Counts(1, 1, 1)
    /\ last.status = "success" =>
          LET links == PageLinks(last.url)
              Number(S) == Cardinality(S)
          IN  /\ last.counts.pdf_count = Number({i \in DOMAIN links : links[i].is_pdf})
              /\ last.counts.nav_link_count =
                     Number({i \in DOMAIN links : ~links[i].is_pdf /\ links[i].justice_gov})
              /\ last.counts.external_link_count =
                     Number({i \in DOMAIN links : ~links[i].is_pdf /\ ~links[i].justice_gov})
              /\ last.counts.pdf_count + last.counts.nav_link_count
                     + last.counts.external_link_count = Number(DOMAIN links)

\* DiscoveryTool crawled the page of the scenario at depth 1 as its only page
C17_Witness ==
    /\ tool = "discovery"
    /\ SinglePageCrawl
    /\ ScenarioPage(PageOf(last.url))
    /\ last.depth = 1
    /\ last.counts = Counts(1, 1, 1)
    /\ Len(discovered_pdfs) = 1
    /\ visited = {U_e}


(***************************************************************************)
(* Properties of the top-level invocations (checked under SpecTop)         *)
(***************************************************************************)
\* C18: two fresh sessions on the same seed with the same max_depth, the same
\* page contents and the same selection input end with the same set of
\* document URLs, whatever order the hrefs were iterated in.
C18_SameDocuments ==
    (session = 2 /\ pc = "returned" /\ choice = first.choice) => DocUrls = first.docs

\* what the sessions do agree on: the document URLs when no link was chosen
\* by its number (and 'all' names no more than AllLimit links)
SameDocumentsUnlessNumbered ==
    (session = 2 /\ pc = "returned" /\ choice = first.choice /\ choice \notin {"1", "2"})
        => DocUrls = first.docs

\* the state the tool object holds is the state in the file
Persisted ==
    /\ file.saved
    /\ ~file.partial
    /\ file.visited = visited
    /\ file.pdfs = discovered_pdfs
    /\ file.links = discovered_links
    /\ file.pages = crawl_log

\* C19: every top-level crawl invocation that has returned has written the
\* state it ends with to the state file, on every exit path.
C19_SavedOnReturn == pc = "returned" => Persisted

\* the exits that do save: every return of main, and every return of
\* interactive_crawl but those after a seed crawl that gave no page or a page
\* with neither PDFs nor navigation links
SavedUnlessSeedFruitless ==
    pc = "returned" =>
        \/ Persisted
        \/ /\ tool = "spider"
           /\ discovered_pdfs = <<>>
           /\ crawl_log = <<>> \/ (Len(crawl_log) = 1 /\ crawl_log[1].nav_links = <<>>)
           /\ choice = "none"


(***************************************************************************)
(* Properties of a download run (checked under SpecDownload)               *)
(***************************************************************************)
\* the for loop has handled every entry of the list
Done == idx > Len(pdf_list)

\* the url of every record of the manifest, downloaded first
RecordUrls ==
    [i \in DOMAIN downloaded |-> downloaded[i].url] \o [i \in DOMAIN failed |-> failed[i].url]

\* number of occurrences of u in the sequence of urls
Count(urls, u) == Cardinality({i \in DOMAIN urls : urls[i] = u})

\* what the loops do keep: at every loop boundary one record per entry handled
\* so far, and after the loop a url in as many records as the input list
\* names it
OneRecordPerEntry ==
    script # "all" =>
        /\ Len(downloaded) + Len(failed) = idx - 1
        /\ Done => \A u \in DownloadUrls : Count(RecordUrls, u) = Count(pdf_list, u)

\* C2: for every input list, after the loop the manifest holds one record per
\* input entry (len(downloaded) + len(failed) == len(input)) and no url occurs
\* in more than one record.
C2_NoDuplicateRecordUrls ==
    (script # "all" /\ Done) =>
        /\ Len(downloaded) + Len(failed) = Len(pdf_list)
        /\ \A i, j \in DOMAIN RecordUrls : i # j => RecordUrls[i] # RecordUrls[j]

\* C3: a download whose payload does not start with %PDF is recorded as
\* failed, never as downloaded, and its bytes are not written to the output
\* path, in every loop.
C3_VerificationGate ==
    \A i \in DOMAIN trace :
        trace[i].payload = "not_pdf" => trace[i].outcome = "failed" /\ ~trace[i].written

\* C4: an entry is skipped as already existing, without a fetch, exactly when
\* the file at its output path is larger than the threshold; a file at or
\* below the threshold is not skipped.
C4_SkipIffAboveMinSize ==
    \A i \in DOMAIN trace :
        /\ trace[i].outcome = "already_exists" <=> trace[i].existing > MinSize
        /\ trace[i].outcome = "already_exists" => ~trace[i].fetched

\* C5 (checked under SpecRerun): in the second run over the same list every
\* entry the first run recorded as a success is skipped as already existing
\* and is not fetched, whatever payload the first run accepted.
C5_SecondRunSkips ==
    run = 2 =>
        \A i \in DOMAIN trace :
            i \in prev_ok => trace[i].outcome = "already_exists" /\ ~trace[i].fetched

\* the steps of this run that ended in a failure
FailedSteps == SelectSeq(trace, LAMBDA st : st.outcome = "failed")

\* the failed records a loop keeps; download_all keeps a counter and no record
FailedRecords == IF script = "all" THEN {} ELSE {failed[i] : i \in DOMAIN failed}

ManifestUrls ==
    [i \in DOMAIN save_manifest.downloaded |-> save_manifest.downloaded[i].url]
        \o [i \in DOMAIN save_manifest.failed |-> save_manifest.failed[i].url]

\* the urls in the order the loop processed them
ProcessedUrls == [i \in DOMAIN trace |-> trace[i].url]

\* C20: the manifest DownloadOrchestrator saves after the loop is one log
\* whose records are in the order the URLs were processed, whatever the mix
\* of downloaded, skipped and failed entries.
C20_ManifestInProcessingOrder ==
    (script = "orchestrator" /\ Done) => ManifestUrls = ProcessedUrls

\* the order the manifest does keep: that of the successes and skips among
\* themselves, and that of the failures among themselves
EachListInProcessingOrder ==
    (script = "orchestrator" /\ Done) =>
        LET Urls(steps) == [i \in DOMAIN steps |-> steps[i].url]
        IN  /\ [i \in DOMAIN downloaded |-> downloaded[i].url]
                   = Urls(SelectSeq(trace, LAMBDA st : st.outcome # "failed"))
            /\ [i \in DOMAIN failed |-> failed[i].url] = Urls(FailedSteps)
            /\ save_manifest.total_count = Len(trace)

\* C21: the output path derived for a URL depends on the URL alone: the
\* entry at position i of the list would get the same path at every other
\* position of a list, in every loop.
C21_PathOfUrlAlone ==
    \A i \in DOMAIN pdf_list : \A j \in 1..MaxList :
        OutputPath(pdf_list[i], j) = OutputPath(pdf_list[i], i)

\* the URLs whose path does depend on the URL alone: all of them but, in
\* DownloadOrchestrator, those whose last path segment does not end in .pdf
PathOfUrlAloneIfPdfName ==
    \A i \in DOMAIN pdf_list : \A j \in 1..MaxList :
        (script # "orchestrator" \/ EndsWith(LastSegment(urlparse(pdf_list[i]).path), S_pdf))
            => OutputPath(pdf_list[i], j) = OutputPath(pdf_list[i], i)

\* sum(...) of a sequence of numbers
RECURSIVE SumSeq(_)
SumSeq(nums) == IF nums = <<>> THEN 0 ELSE Head(nums) + SumSeq(Tail(nums))

\* sum of f over the elements of seq
Sum(seq, f(_)) == SumSeq([i \in DOMAIN seq |-> f(seq[i])])

\* the total size a script prints after the loop: the accumulator of
\* download_all; sum(d.get("size", 0) for d in downloaded if "size" in d) in
\* download_with_age_verification
TotalSize ==
    IF script = "all" THEN total_size
    ELSE Sum(downloaded, LAMBDA d : IF "size" \in DOMAIN d THEN d.size ELSE 0)

\* the number of entries a script counts as downloaded, and as failed
DownloadedCount == IF script = "all" THEN downloaded ELSE Len(downloaded)

FailedCount == IF script = "all" THEN failed ELSE Len(failed)

\* the steps of this run counted as downloaded: written or found on disk
CountedSteps == SelectSeq(trace, LAMBDA st : st.outcome # "failed")

\* the size of the file a counted step stands for
FileSize(st) == IF st.outcome = "already_exists" THEN st.existing ELSE st.size

\* C22: at every loop boundary the counters are folds over the outcomes so
\* far: the downloaded count is the number of entries written or skipped as
\* existing, the failed count the number of failed entries, their sum the
\* number of entries processed; the total size is the sum of the sizes of the
\* files counted as downloaded; and total_count and success_count of the
\* manifest are the numbers of records and of downloaded records.
C22_CountersAreFolds ==
    /\ DownloadedCount = Len(CountedSteps)
    /\ FailedCount = Len(FailedSteps)
    /\ DownloadedCount + FailedCount = idx - 1
    /\ script \in {"all", "with_verification"} => TotalSize = Sum(CountedSteps, FileSize)
    /\ script = "orchestrator" =>
          /\ save_manifest.total_count = Len(trace)
          /\ save_manifest.success_count = Len(CountedSteps)

\* the folds the counters are: as C22, but the total size of
\* download_with_age_verification covers the files written in this run only,
\* not the skipped ones its downloaded count includes
CountersAreFoldsOfWritten ==
    /\ DownloadedCount = Len(CountedSteps)
    /\ FailedCount = Len(FailedSteps)
    /\ DownloadedCount + FailedCount = idx - 1
    /\ script = "all" => TotalSize = Sum(CountedSteps, FileSize)
    /\ script = "with_verification" => TotalSize = Sum(trace, LAMBDA st : st.size)
    /\ script = "orchestrator" =>
          /\ save_manifest.total_count = Len(trace)
          /\ save_manifest.success_count = Len(CountedSteps)

(***************************************************************************)
(* Properties of a download run and its interrupts (checked under SpecRun) *)
(***************************************************************************)
\* the scripts that dump the records of the run
DumpsRecords == script \in {"orchestrator", "all_epstein"}

\* the manifest on disk holds the records of the entries processed so far
ManifestCurrent == manifest = JsonFile(Report, FALSE)

\* C23: a download run always ends with its manifest persisted: when the run
\* has returned and when it was interrupted after some entries were
\* processed, the manifest file holds the records of the entries processed so
\* far.
C23_ManifestPersisted ==
    (DumpsRecords /\ phase # "loop" /\ idx > 1) => ManifestCurrent

\* the end that does persist the manifest: the return after a complete loop
ManifestPersistedOnReturn ==
    (script # "all" /\ phase = "returned") => ManifestCurrent

\* a file f.write was cut short on
PartFile(f) == "partial" \in DOMAIN f /\ f.partial

\* C24: an interrupt never leaves persisted state corrupted: the manifest is
\* never left partly written, and no partly written document is at an output
\* path where the skip test of a later run accepts it.
C24_NoPartialFiles ==
    /\ ~manifest.partial
    /\ \A path \in DOMAIN disk : PartFile(disk[path]) => ~SkipExisting(path)

\* the state file is never left partly written (checked under SpecTop)
StateFileWhole == ~file.partial

\* the interrupts that leave the files whole: those between two units of
\* work
WholeFilesBetweenUnits ==
    [][ interrupt => (UNCHANGED <<disk, manifest>> /\ ~manifest'.partial) ]_vars

(***************************************************************************)
(* Properties of successive download runs (checked under SpecRerun)        *)
(***************************************************************************)
\* the loops that write a payload only after it is verified as a PDF
Verifying == script \in {"all", "with_verification"}

\* C25: successive runs of a verifying loop over the same list converge: an
\* entry fetched in a run had no accepted file at its output path, and a URL
\* that the run before recorded as downloaded or as existing (its file
\* written by a verified download and still on disk) is not fetched again.
C25_RunsConverge ==
    (Verifying /\ run >= 2) =>
        /\ \A i \in DOMAIN trace : trace[i].fetched => trace[i].existing <= MinSize
        /\ \A i \in prev_ok : \A j \in DOMAIN trace :
              pdf_list[j] = pdf_list[i] => ~trace[j].fetched

\* the convergence the loops have: as C25 for the files of more than MinSize
\* bytes; a verified file of MinSize bytes or less is fetched again
RunsConvergeAboveMinSize ==
    (Verifying /\ run >= 2) =>
        /\ \A i \in DOMAIN trace : trace[i].fetched => trace[i].existing <= MinSize
        /\ \A i \in prev_ok : \A j \in DOMAIN trace :
              (pdf_list[j] = pdf_list[i] /\ trace[j].existing > MinSize) => ~trace[j].fetched

(***************************************************************************)
(* Properties of the configuration of a crawl (checked under SpecConfig)   *)
(***************************************************************************)
\* the crawl was started with a seed that is no absolute URL or with a
\* negative max_depth
InvalidConfig == pc # "start" /\ (max_depth < 0 \/ ~Absolute(last.url))

\* C27: a crawl with an invalid seed URL or a negative max_depth is rejected
\* before any work starts: no URL is in visited, no page was fetched and no
\* state was persisted.
C27_ConfigRejected ==
    InvalidConfig => (visited = {} /\ fetch_log = <<>> /\ ~file.saved)

\* what a crawl with a negative max_depth does leave undone: it fetches
\* nothing and visits nothing, but reports 'skipped' and saves the state
NegativeDepthSkips ==
    (pc # "start" /\ max_depth < 0) =>
        /\ visited = {}
        /\ fetch_log = <<>>
        /\ last.status = "skipped"
        /\ file.saved

(***************************************************************************)
(* Properties of the agent orchestrator (checked under SpecAgent)          *)
(***************************************************************************)
\* the file is missing or holds text json.load cannot parse
Unreadable(f) == ~f.saved \/ f.partial

\* the file is missing
Missing(f) == ~f.saved

\* C26: loading persisted state never crashes the caller: when the state
\* file or the manifest file is missing or corrupt, get_state,
\* get_download_manifest and load_discovery_state return the empty
\* 'no state' value, and no command ends in a traceback.
C26_LoadNeverCrashes ==
    /\ out.kind # "traceback"
    /\ Unreadable(discovery_state) => load_discovery_state = [raised |-> "", pdfs |-> <<>>]
    /\ (Unreadable(spider_state) /\ Unreadable(discovery_state)) =>
            get_state = [raised |-> "", state |-> no_state]
    /\ Unreadable(manifest) => get_download_manifest = [raised |-> "", manifest |-> no_manifest]

\* what the loaders do: a missing file loads as the 'no state' value, and a
\* command ends in a traceback only when a file it loads is corrupt
MissingLoadsAsNoState ==
    /\ out.kind = "traceback" =>
            (spider_state.partial \/ discovery_state.partial \/ manifest.partial)
    /\ Missing(discovery_state) => load_discovery_state = [raised |-> "", pdfs |-> <<>>]
    /\ (Missing(spider_state) /\ Missing(discovery_state)) =>
            get_state = [raised |-> "", state |-> no_state]
    /\ Missing(manifest) => get_download_manifest = [raised |-> "", manifest |-> no_manifest]

\* the command has ended
Exited == action # "none" /\ exit_code # -1

\* the last task of the command
LastTask == tasks[Len(tasks)]

\* C28: each orchestrator command exits non-zero if and only if its terminal
\* task ended in failure: a download command in which downloads failed or no
\* discovery state was found, and a workflow that stopped early, exit
\* non-zero; a command whose terminal task succeeded exits zero.
C28_ExitCodeTellsFailure ==
    Exited =>
        /\ (action = "download" /\ (failed # <<>> \/ Missing(discovery_state))) => exit_code # 0
        /\ (action = "workflow" /\ Len(tasks) < 3) => exit_code # 0
        /\ (tasks # <<>> /\ LastTask.status = "failed") => exit_code # 0
        /\ (action \in {"discover", "batch_discover", "process"} /\ LastTask.status = "complete")
                => exit_code = 0

\* what the exit code does tell: the return code of the last subprocess, or
\* a traceback of the orchestrator itself
ExitCodeFollowsLastTask ==
    Exited =>
        (exit_code # 0 <=>
            (out.kind = "traceback" \/ (tasks # <<>> /\ LastTask.status = "failed")))

\* a download task returns 0 whenever its main returns, whatever it
\* downloaded
DownloadReturnsZero ==
    (child = "download" /\ phase = "returned") => returncode = 0

\* a step of the download task, from the start of its main to the return of
\* _run_task
DownloadStep == child = "download"

\* a step in which get_report runs: the report command, and the end of
\* run_workflow
ReportStep ==
    \/ action = "none" /\ action' = "report"
    \/ action = "workflow" /\ child = "process" /\ child' = "none"

\* C29: the download stage and the report stage never change the persisted
\* discovery state: over every step of main of download_orchestrator.py and
\* of get_report the state files keep their content.
C29_StateReadOnly ==
    [][ (DownloadStep \/ ReportStep) =>
            (discovery_state' = discovery_state /\ spider_state' = spider_state) ]_vars

\* a workflow has run its download task over a saved state, written the
\* manifest and printed the report
C29_Witness ==
    /\ action = "workflow"
    /\ Len(tasks) = 3
    /\ tasks[2].name = "download"
    /\ tasks[2].status = "complete"
    /\ discovery_state.saved
    /\ discovery_state.pdfs # <<>>
    /\ manifest.saved
    /\ out.kind = "report"

\* the next step the claim names for the persisted files a report was
\* rendered from: the two state files and the manifest
NextStepOf(of) ==
    IF ~of[1].saved /\ ~of[2].saved THEN <<"discover">>
    ELSE IF ~of[3].saved \/ of[3].content.downloaded = <<>> THEN <<"download", "process">>
    ELSE <<"process">>

\* C30: the next step suggested by get_report is a function of the persisted
\* state alone and is 'discover' when no discovery state exists, 'download
\* then process' when state exists and the manifest has no downloaded
\* record, 'process' when it has one; the same state always yields the same
\* report text.
C30_ReportOfPersistedState ==
    /\ out.kind = "report" => out.text.next = NextStepOf(out.of)
    /\ (out.kind = "report" /\ prev.kind = "report" /\ prev.of = out.of) =>
            prev.text = out.text

\* what holds of the text: the suggested next step is the one of the
\* persisted files, and two reports over the same files differ at most in
\* the task history, which is the memory of the process
ReportOfStateAndHistory ==
    /\ out.kind = "report" => out.text.next = NextStepOf(out.of)
    /\ (out.kind = "report" /\ prev.kind = "report" /\ prev.of = out.of) =>
            [prev.text EXCEPT !.history = <<>>] = [out.text EXCEPT !.history = <<>>]

(***************************************************************************)
(* Properties of an interactive spider crawl (checked under SpecSpider)    *)
(***************************************************************************)
\* the navigation links of the crawled pages that were not visited
UnvisitedNavLinks ==
    UNION { { crawl_log[i].nav_links[j].url : j \in DOMAIN crawl_log[i].nav_links } :
              i \in DOMAIN crawl_log } \ visited

\* every crawled page is above max_depth
BelowMaxDepth == \A i \in DOMAIN crawl_log : crawl_log[i].depth < max_depth

\* the user ended the crawl: 'stop', or a selection that is no number
UserStop == choice \in {"stop", "x"}

\* C31: an interactive spider crawl keeps crawling until a PDF has been found
\* or the maximum depth has been reached: it never ends, without a user
\* stop, with no PDF discovered, unvisited navigation links remaining and
\* the deepest crawled page below max_depth.
C31_CrawlsUntilPdfOrMaxDepth ==
    (pc = "returned" /\ ~UserStop) =>
        ~(discovered_pdfs = <<>> /\ UnvisitedNavLinks # {} /\ crawl_log # <<>> /\ BelowMaxDepth)

\* how far interactive_crawl goes: the seed at depth 0 and the selected
\* links at depth 1, each at most once
OneRoundOfSelection ==
    /\ \A i \in DOMAIN crawl_log : crawl_log[i].depth <= 1
    /\ \A i \in DOMAIN fetch_log : fetch_log[i].depth <= 1
    /\ Len(fetch_log) <= 1 + AllLimit

(***************************************************************************)
(* Properties of the fetches of a session (checked under Spec)             *)
(***************************************************************************)
\* the URLs a driving loop can still have fetched
Unvisited == CrawlUrls \ visited

\* C32: each crawl call expands at most one page, and in every reachable
\* state the number of fetch_page invocations made so far equals the size
\* of visited; so over a finite set of URLs the calls of any driving loop
\* make at most as many fetches as there are distinct URLs, and every call
\* that fetches leaves fewer URLs to fetch.
C32_OneFetchPerVisited ==
    /\ [](Len(fetch_log) = Cardinality(visited) /\ Len(fetch_log) <= Cardinality(CrawlUrls))
    /\ [][ /\ Len(fetch_log') <= Len(fetch_log) + 1
           /\ Len(crawl_log') <= Len(crawl_log) + 1
           /\ Len(fetch_log') > Len(fetch_log) =>
                  Cardinality(Unvisited') < Cardinality(Unvisited) ]_vars

\* every URL of the web was fetched, and a further call was answered without
\* a fetch
C32_Witness ==
    /\ Unvisited = {}
    /\ Len(fetch_log) = Cardinality(CrawlUrls)
    /\ last.depth <= max_depth
    /\ last.fetch = "not_called"

(***************************************************************************)
(* Properties of the output paths of a batch (checked under SpecDownload)  *)
(***************************************************************************)
\* the output path of entry i of the list
PathOfEntry(i) == OutputPath(pdf_list[i], i)

\* iteration i of this run wrote the file that iteration j found
WroteFor(i, j) == i < j /\ trace[i].written /\ PathOfEntry(i) = PathOfEntry(j)

\* C33: within one batch a URL is recorded as already_exists only if the
\* file at its output path was written for that same URL: no iteration
\* finds, as its own, a file an earlier iteration of the batch wrote for a
\* different URL.
C33_ExistsMeansOwnContent ==
    \A j \in DOMAIN trace :
        trace[j].outcome = "already_exists" =>
            \A i \in DOMAIN trace : WroteFor(i, j) => pdf_list[i] = pdf_list[j]

\* two distinct URLs of one batch never map to the same output path
DistinctUrlsDistinctPaths ==
    \A i, j \in DOMAIN pdf_list :
        pdf_list[i] # pdf_list[j] => PathOfEntry(i) # PathOfEntry(j)

\* which URLs do share a path: those with the same last path segment
SharedPathsShareLastSegment ==
    \A i, j \in DOMAIN pdf_list :
        PathOfEntry(i) = PathOfEntry(j) =>
            LastSegment(pdf_list[i]) = LastSegment(pdf_list[j])

(***************************************************************************)
(* Properties of the state files the stages share (checked under           *)
(* SpecAgent)                                                              *)
(***************************************************************************)
\* the urls of a list of PDF records
UrlsOf(pdfs) == {pdfs[i].url : i \in DOMAIN pdfs}

\* both loaders return
LoadersReturn == get_state.raised = "" /\ load_discovery_state.raised = ""

\* batch_discover of a workflow has ended COMPLETE and run_workflow is about
\* to inspect the state
WorkflowInspects ==
    action = "workflow" /\ child = "batch_discover" /\ returncode = 0

\* C34: the discovery state the report and the workflow read is the one the
\* download command consumes and the one the last discovery run wrote:
\* every PDF of the state get_state returns is in the list
\* load_discovery_state gives the downloader, and after batch_discover the
\* state run_workflow inspects is the file batch_discover wrote, also when
\* an older spider state file is present.
C34_OneDiscoveryState ==
    /\ LoadersReturn => UrlsOf(get_state.state.pdfs) \subseteq UrlsOf(load_discovery_state.pdfs)
    /\ (WorkflowInspects /\ get_state.raised = "") =>
            /\ get_state.state.pdfs = discovery_state.pdfs
            /\ get_state.state.visited = discovery_state.visited

\* what holds when no spider state file is on disk: both loaders read
\* reference/discovery_state.json
OneDiscoveryStateWithoutSpider ==
    ~spider_state.saved =>
        /\ LoadersReturn => get_state.state.pdfs = load_discovery_state.pdfs
        /\ (WorkflowInspects /\ get_state.raised = "") =>
                /\ get_state.state.pdfs = discovery_state.pdfs
                /\ get_state.state.visited = discovery_state.visited

\* a workflow whose discovery found no PDF goes on to the download task
\* because an older spider state holds one
StaleStateDrivesWorkflow ==
    /\ action = "workflow"
    /\ child = "download"
    /\ discovery_state.saved
    /\ discovery_state.pdfs = <<>>
    /\ spider_state.pdfs # <<>>

(***************************************************************************)
(* Properties of run_workflow and of the task history (checked under       *)
(* SpecAgent)                                                              *)
(***************************************************************************)
\* a task that has ended COMPLETE
Complete(name) == [name |-> name, status |-> "complete", returncode |-> 0]

\* C35: in run_workflow the stages run in a fixed order with gates: the
\* download task starts only after the discovery task ended COMPLETE and the
\* loaded state holds at least one PDF, the process task starts only after
\* the download task ended COMPLETE, the final report is produced only after
\* the process task ran, and a FAILED stage is never followed by a later
\* stage.
C35_WorkflowGates ==
    action = "workflow" =>
        /\ child = "download" =>
                (tasks = <<Complete("batch_discover")>> /\ get_state.state.pdfs # <<>>)
        /\ child = "process" => tasks = <<Complete("batch_discover"), Complete("download")>>
        /\ out.kind = "report" =>
                (Len(tasks) = 3 /\ tasks[3].name = "process"
                    /\ SubSeq(tasks, 1, 2) = <<Complete("batch_discover"), Complete("download")>>)
        /\ \A i \in DOMAIN tasks :
                tasks[i].status = "failed" => (i = Len(tasks) /\ child = "none")

\* a workflow has run its three stages and printed the report
C35_Witness ==
    /\ action = "workflow"
    /\ Len(tasks) = 3
    /\ out.kind = "report"
    /\ exit_code # -1

\* the statuses a finished task may have
Terminal == {"complete", "failed"}

\* the status of the task subprocess.run waits for, or has just returned to
Running == child # "none"

\* C36: every task moves PENDING -> RUNNING -> (COMPLETE or FAILED) and never
\* leaves a terminal status; every task in the task history has a terminal
\* status, it is COMPLETE if and only if its return code is 0, and the
\* history holds the tasks in the order they were run.
C36_TaskHistory ==
    /\ [](\A i \in DOMAIN tasks :
              /\ tasks[i].status \in Terminal
              /\ tasks[i].status = "complete" <=> tasks[i].returncode = 0)
    /\ [][ \/ tasks' = tasks
           \/ /\ Running
              /\ returncode # -1
              /\ Len(tasks') = Len(tasks) + 1
              /\ SubSeq(tasks', 1, Len(tasks)) = tasks
              /\ tasks'[Len(tasks')].name = child
              /\ tasks'[Len(tasks')].returncode = returncode
              /\ child' # child
           \/ tasks' = <<>> /\ commands' = commands + 1 ]_vars

\* a command has run three tasks, the first COMPLETE and the last FAILED
C36_Witness ==
    /\ Len(tasks) = 3
    /\ tasks[1].status = "complete"
    /\ tasks[3].status = "failed"
    /\ tasks[3].returncode = 1
    /\ child = "none"

(***************************************************************************)
(* Properties of download_zip_files.py (checked under SpecZip)             *)
(***************************************************************************)
\* C37: for each data set the browser context is closed only after the
\* download handler started for that data set has finished (saved the file
\* or failed): no handler task is still running when its context is closed
\* or when the next data set's iteration begins.
C37_HandlerEndsBeforeClose ==
    \A d \in 1..MaxSets : zip_handler[d] = "running" => (zip_context = d /\ zip_i = d)

\* what a handler that outlives its context can still do: fail, or be
\* cancelled; it writes no file
OutlivingHandlerOnlyFails ==
    [][ \A d \in 1..MaxSets :
            (zip_handler[d] = "running" /\ zip_context # d) =>
                /\ zip_handler'[d] \in {"running", "failed", "cancelled"}
                /\ zip_files'[d] = zip_files[d] ]_vars

\* at most the context of the current data set is open
OneContextOpen == zip_context \in {0, zip_i}


(***************************************************************************)
(* Properties of discover_all_datasets (checked under SpecDatasets)        *)
(***************************************************************************)
RECURSIVE FoundPdfs(_)
\* the pdfs the discovery runs of iterations 1..n found, in order
FoundPdfs(n) == IF n = 0 THEN <<>> ELSE FoundPdfs(n - 1) \o found[n].pdfs

\* the iterations whose load has been done
Loaded == 1..(ds_i - 1)

\* C38: the pdfs added to the combined manifest in iteration i are exactly
\* those the discovery run for data set i found: a run that failed or wrote
\* no state adds nothing
C38_OwnPdfsOnly == all_pdfs = FoundPdfs(ds_i - 1)

\* while every run so far wrote its state, all_pdfs is what the runs found
OwnPdfsWhenEveryRunWrote ==
    (\A k \in Loaded : found[k].wrote) => all_pdfs = FoundPdfs(ds_i - 1)

\* the combined manifest is all_pdfs as it was after the loop
CombinedIsAllPdfs ==
    combined.saved =>
        /\ ds_i > MaxDatasets
        /\ combined.content.pdfs = all_pdfs
        /\ combined.content.total_pdfs = Len(all_pdfs)

\* a failed second run after a first run that found pdfs: the pdfs of run 1
\* are in the combined manifest twice
EarlierPdfsAddedAgain ==
    /\ combined.saved
    /\ Len(found) = 2
    /\ found[1].wrote /\ found[1].pdfs # <<>>
    /\ ~found[2].wrote
    /\ combined.content.pdfs = found[1].pdfs \o found[1].pdfs

====
